---- MODULE Spec2Model ----
(***************************************************************************)
(* A model of the MFL toolchain of etnt/mypython: the shift-reduce parser  *)
(* (mfl_parser.py), the type checker (mfl_type_checker.py), the SECD       *)
(* compiler and machine (mfl_secd.py) and the Core Erlang generator        *)
(* (mfl_core_erlang_generator.py).                                         *)
(*                                                                         *)
(* Python objects are tagged tuples, the tag first:                        *)
(*   AST nodes   <<"Int", v>>, <<"Var", name>>, <<"Let", name, value, body>>*)
(*   values      <<"int", n>>, <<"bool", 0|1>>, <<"float", num, den>>,      *)
(*               <<"none">>, <<"list", items>>, <<"closure", body, env>>    *)
(*   instructions <<"LDC", v>>, <<"LD", <<i, j>>>>, <<"LDF", body>>, ...    *)
(* A str is the tuple of its characters.  A Python list that the code      *)
(* aliases and mutates in place (an instruction list, an environment) is a *)
(* reference into a heap; every other list is a value.                     *)
(***************************************************************************)
EXTENDS Integers, Sequences, FiniteSets, TLC

VARIABLES
    \* compile_ast: the call frame under consideration
    cAst, cEnvMap, cLevel, cPc, cResult,
    \* SECDMachine: the four registers, the two heaps, and run()'s outcome
    program, source, stack, env, control, dump, consumed, envHeap, status,
    result, created,
    \* FunctionalParser
    text, buffer, pstack, pstatus, past,
    \* CoreErlangGenerator: the call frame of generate
    gNode, indentation, gPc, gResult,
    tyFwd, uCalls, uArgs, uBefore, uResult, tcExpr, tcCtx, tcOut, tcDicts,
    pcalls,
    mPc, mArgs, mIndex

compVars == <<cAst, cEnvMap, cLevel, cPc, cResult>>
secdVars == <<program, source, stack, env, control, dump, consumed, envHeap,
              status, result, created>>
parseVars == <<text, buffer, pstack, pstatus, past, pcalls>>
genVars == <<gNode, indentation, gPc, gResult>>
unifyVars == <<uCalls, uArgs, uBefore, uResult>>
inferVars == <<tcExpr, tcCtx, tcOut, tcDicts>>
typeVars == <<tyFwd, unifyVars, inferVars>>
mainVars == <<mPc, mArgs, mIndex>>
vars == <<compVars, secdVars, parseVars, genVars, typeVars, mainVars>>

(***************************************************************************)
(* Bounds of the input sets.                                               *)
(***************************************************************************)
MaxInt == 2
MaxBinders == 2
MaxTokens == 2

(***************************************************************************)
(* Strings.                                                                *)
(***************************************************************************)
Digits == <<"0", "1", "2", "3", "4", "5", "6", "7", "8", "9">>
DigitChars == {Digits[i] : i \in 1..10}
LowerChars == <<"a", "b", "c", "d", "e", "f", "g", "h", "i", "j", "k", "l", "m",
                "n", "o", "p", "q", "r", "s", "t", "u", "v", "w", "x", "y", "z">>
UpperChars == <<"A", "B", "C", "D", "E", "F", "G", "H", "I", "J", "K", "L", "M",
                "N", "O", "P", "Q", "R", "S", "T", "U", "V", "W", "X", "Y", "Z">>
LowerSet == {LowerChars[i] : i \in 1..26} \cup {"λ"}
UpperSet == {UpperChars[i] : i \in 1..26}

\* str.isdigit(): non-empty and every character a digit
isdigit(s) == Len(s) > 0 /\ \A i \in 1..Len(s) : s[i] \in DigitChars

\* str.isalnum(): non-empty and every character a letter or a digit
\* (the Greek letter of the lambda token is a letter to Python)
isalnum(s) ==
    Len(s) > 0 /\ \A i \in 1..Len(s) : s[i] \in DigitChars \cup LowerSet \cup UpperSet

\* c.islower() on one character
islower(c) == c \in LowerSet

\* c.upper() on one character
upper(c) ==
    IF \E i \in 1..26 : LowerChars[i] = c
    THEN UpperChars[CHOOSE i \in 1..26 : LowerChars[i] = c]
    ELSE IF c = "λ" THEN "Λ" ELSE c

\* int(s) for a string of digits
RECURSIVE int(_)
int(s) ==
    IF Len(s) = 0 THEN 0
    ELSE 10 * int(SubSeq(s, 1, Len(s) - 1))
         + ((CHOOSE i \in 1..10 : Digits[i] = s[Len(s)]) - 1)

\* str(n) for an integer
RECURSIVE strNat(_)
strNat(n) == IF n < 10 THEN <<Digits[n + 1]>>
             ELSE strNat(n \div 10) \o <<Digits[(n % 10) + 1]>>
str(n) == IF n < 0 THEN <<"-">> \o strNat(0 - n) ELSE strNat(n)

(***************************************************************************)
(* The AST classes of mfl_type_checker.py.                                 *)
(***************************************************************************)
Var(name) == <<"Var", name>>
IntLit(value) == <<"Int", value>>
BoolLit(value) == <<"Bool", value>>
Function(arg, body) == <<"Function", arg, body>>
Apply(func, arg) == <<"Apply", func, arg>>
Let(name, value, body) == <<"Let", name, value, body>>
BinOp(op, left, right) == <<"BinOp", op, left, right>>
UnaryOp(op, operand) == <<"UnaryOp", op, operand>>

\* the dataclass fields of each class, in order
Fields(class) ==
    CASE class = "Var" -> <<"name">>
      [] class = "Int" -> <<"value">>
      [] class = "Bool" -> <<"value">>
      [] class = "Function" -> <<"arg", "body">>
      [] class = "Apply" -> <<"func", "arg">>
      [] class = "Let" -> <<"name", "value", "body">>
      [] class = "BinOp" -> <<"op", "left", "right">>
      [] class = "UnaryOp" -> <<"op", "operand">>
      [] OTHER -> <<>>

\* hasattr(node, f) and getattr(node, f)
hasattr(node, f) == \E i \in 1..Len(Fields(node[1])) : Fields(node[1])[i] = f
getattr(node, f) ==
    node[1 + (CHOOSE i \in 1..Len(Fields(node[1])) : Fields(node[1])[i] = f)]

(***************************************************************************)
(* Run-time values of the SECD machine and its instructions.               *)
(***************************************************************************)
IntV(n) == <<"int", n>>
BoolV(b) == <<"bool", IF b THEN 1 ELSE 0>>
None == <<"none">>
ListV(items) == <<"list", items>>
Closure(body, e) == <<"closure", body, e>>

InsLDC(v) == <<"LDC", v>>
InsLD(addr) == <<"LD", addr>>
InsLDF(body) == <<"LDF", body>>
InsSEL(then_branch, else_branch) == <<"SEL", then_branch, else_branch>>
InsLET(idx) == <<"LET", idx>>
\* an application emitted as the recursive apply
InsRecursive(name) == IF name = "AP" THEN <<"RAP">> ELSE <<name>>
Ins(name) == <<name>>

\* what a function of the toolchain hands back: a value, or the exception raised
Ok(v) == <<"ok", v>>
Raise(kind, detail) == <<"raise", kind, detail>>
IsOk(r) == r[1] = "ok"

(***************************************************************************)
(* compile_ast (mfl_secd.py).  env_map is a function from names to         *)
(* <<level, index>>.                                                       *)
(***************************************************************************)
EmptyMap == <<>>

\* Function case: the parameter is entered at (0, 0), then every name of the
\* old map, the parameter's own name included, is written one level up
FunctionEnvMap(env_map, name) ==
    [v \in DOMAIN env_map \cup {name} |->
        IF v \in DOMAIN env_map
        THEN <<env_map[v][1] + 1, env_map[v][2]>>
        ELSE <<0, 0>>]

\* Let case: bind_idx = len(env_map)
LetBindIdx(env_map) == Cardinality(DOMAIN env_map)

\* Let case: new_env_map[var_name] = (0, bind_idx) on a copy, nothing shifted
LetEnvMap(env_map, var_name) ==
    [v \in DOMAIN env_map \cup {var_name} |->
        IF v = var_name THEN <<0, LetBindIdx(env_map)>> ELSE env_map[v]]

\* BinOp case: op_map
op_map ==
    [o \in {"+", "-", "*", "/", "&", "|"} |->
        CASE o = "+" -> "ADD" [] o = "-" -> "SUB" [] o = "*" -> "MUL"
          [] o = "/" -> "DIV" [] o = "&" -> "AND" [] o = "|" -> "OR"]

RECURSIVE compile_ast(_, _, _)
compile_ast(ast, env_map, level) ==
    CASE ast[1] = "Int" -> Ok(<<InsLDC(IntV(getattr(ast, "value")))>>)
      [] ast[1] = "Bool" -> Ok(<<InsLDC(BoolV(getattr(ast, "value")))>>)
      [] ast[1] = "Var" ->
            IF getattr(ast, "name") \notin DOMAIN env_map
            THEN Raise("ValueError: Unbound variable", getattr(ast, "name"))
            ELSE Ok(<<InsLD(env_map[getattr(ast, "name")])>>)
      [] ast[1] = "Function" ->
            LET new_env_map ==
                    FunctionEnvMap(env_map, getattr(getattr(ast, "arg"), "name"))
                body_code == compile_ast(getattr(ast, "body"), new_env_map, level + 1)
            IN  IF IsOk(body_code)
                THEN Ok(<<InsLDF(body_code[2] \o <<Ins("RET")>>)>>)
                ELSE body_code
      [] ast[1] = "Apply" ->
            LET func_code == compile_ast(getattr(ast, "func"), env_map, level)
                arg_code == compile_ast(getattr(ast, "arg"), env_map, level)
            IN  IF ~IsOk(func_code) THEN func_code
                ELSE IF ~IsOk(arg_code) THEN arg_code
                ELSE Ok(<<Ins("NIL")>> \o arg_code[2] \o <<Ins("CONS")>>
                        \o func_code[2] \o <<Ins("AP")>>)
      [] ast[1] = "Let" ->
            LET var_name == getattr(getattr(ast, "name"), "name")
                value_code == compile_ast(getattr(ast, "value"), env_map, level)
                body_code == compile_ast(getattr(ast, "body"),
                                         LetEnvMap(env_map, var_name), level)
            IN  IF ~IsOk(value_code) THEN value_code
                ELSE IF ~IsOk(body_code) THEN body_code
                ELSE Ok(value_code[2] \o <<InsLET(LetBindIdx(env_map))>>
                        \o body_code[2])
      [] ast[1] = "BinOp" ->
            LET left_code == compile_ast(getattr(ast, "left"), env_map, level)
                right_code == compile_ast(getattr(ast, "right"), env_map, level)
            IN  IF ~IsOk(left_code) THEN left_code
                ELSE IF ~IsOk(right_code) THEN right_code
                ELSE IF getattr(ast, "op") \notin DOMAIN op_map
                THEN Raise("KeyError", getattr(ast, "op"))
                ELSE Ok(left_code[2] \o right_code[2]
                        \o <<Ins(op_map[getattr(ast, "op")])>>)
      [] ast[1] = "UnaryOp" /\ getattr(ast, "op") = "!" ->
            \* expr_code = compile_ast(ast.expr): the operand is read from the
            \* attribute expr and compiled with the default (empty) env_map
            IF ~hasattr(ast, "expr")
            THEN Raise("AttributeError", "expr")
            ELSE LET expr_code == compile_ast(getattr(ast, "expr"), EmptyMap, 0)
                 IN  IF IsOk(expr_code)
                     THEN Ok(expr_code[2] \o <<Ins("NOT")>>)
                     ELSE expr_code
      [] OTHER -> Raise("ValueError: Unknown AST node type", ast[1])

(***************************************************************************)
(* Input expressions.                                                      *)
(***************************************************************************)
Names == {<<"x">>, <<"y">>}
Operators == {"+", "-", "*", "/", "&", "|"}
Literals == {IntLit(n) : n \in 0..MaxInt} \cup {BoolLit(TRUE), BoolLit(FALSE)}
Atoms == Literals \cup {Var(n) : n \in Names}

\* every expression with one constructor over atoms
Flat ==
    Atoms
    \cup {BinOp(o, a, b) : o \in Operators, a \in Atoms, b \in Atoms}
    \cup {UnaryOp("!", a) : a \in Atoms}
    \cup {Function(Var(n), a) : n \in Names, a \in Atoms}
    \cup {Apply(a, b) : a \in Atoms, b \in Atoms}
    \cup {Let(Var(n), a, b) : n \in Names, a \in Atoms, b \in Atoms}

\* a chain of binders (lambda n, or let n = k) around a body
Binders ==
    {<<"lam", n>> : n \in Names}
    \cup {<<"let", n, IntLit(k)>> : n \in Names, k \in 1..MaxInt}
RECURSIVE Wrap(_, _)
Wrap(chain, body) ==
    IF chain = <<>> THEN body
    ELSE LET b == Head(chain)
             inner == Wrap(Tail(chain), body)
         IN  IF b[1] = "lam" THEN Function(Var(b[2]), inner)
             ELSE Let(Var(b[2]), b[3], inner)
ChainBodies ==
    {Var(n) : n \in Names}
    \cup {BinOp(o, Var(<<"x">>), Var(<<"y">>)) : o \in {"-", "+"}}
    \cup {UnaryOp("!", Var(<<"x">>))}
Chains == UNION {[1..k -> Binders] : k \in 1..MaxBinders}
Nested == {Wrap(c, b) : c \in Chains, b \in ChainBodies}

\* a lambda applied in place, and a let-bound lambda applied once or twice
LambdaBodies(n) ==
    {Var(n)} \cup {BinOp(o, Var(n), IntLit(1)) : o \in {"+", "*"}}
Applications ==
    UNION {{Apply(Function(Var(n), b), IntLit(k)) :
                b \in LambdaBodies(n), k \in 0..MaxInt} : n \in Names}
    \cup {Let(Var(<<"f">>), Function(Var(<<"x">>), b),
              Apply(Var(<<"f">>), IntLit(k))) :
            b \in LambdaBodies(<<"x">>), k \in 0..MaxInt}
    \cup {Let(Var(<<"f">>), Function(Var(<<"x">>), b),
              BinOp("+", Apply(Var(<<"f">>), IntLit(j)),
                         Apply(Var(<<"f">>), IntLit(k)))) :
            b \in LambdaBodies(<<"x">>), j \in 0..MaxInt, k \in 0..MaxInt}

Expressions == Flat \cup Nested \cup Applications

\* names as the tokenizer can deliver them: letters and digits in any order
Identifiers ==
    {<<"x">>, <<"X">>, <<"x", "1">>, <<"i", "d">>, <<"a", "B">>, <<"1", "x">>,
     <<"4", "2", "a">>}

\* one reference, one lambda parameter and one let-bound name for each of them
NameExpressions ==
    {Var(n) : n \in Identifiers}
    \cup {Function(Var(n), Var(n)) : n \in Identifiers}
    \cup {Let(Var(n), IntLit(1), Var(n)) : n \in Identifiers}

(***************************************************************************)
(* compile_ast as a state machine: the state is one call of compile_ast    *)
(* (its arguments), a step either returns from it or enters one of the     *)
(* recursive calls its code makes.                                         *)
(***************************************************************************)
CompInit ==
    /\ cAst \in Expressions
    /\ cEnvMap = EmptyMap
    /\ cLevel = 0
    /\ cPc = "call"
    /\ cResult = None

CompIdle ==
    /\ cAst = None /\ cEnvMap = EmptyMap /\ cLevel = 0
    /\ cPc = "idle" /\ cResult = None

CompileReturn ==
    /\ cPc = "call"
    /\ cPc' = "returned"
    /\ cResult' = compile_ast(cAst, cEnvMap, cLevel)
    /\ UNCHANGED <<cAst, cEnvMap, cLevel>>
    /\ UNCHANGED <<secdVars, parseVars, genVars, typeVars, mainVars>>

Enter(ast, env_map, level) ==
    /\ cAst' = ast /\ cEnvMap' = env_map /\ cLevel' = level
    /\ UNCHANGED <<cPc, cResult>>
    /\ UNCHANGED <<secdVars, parseVars, genVars, typeVars, mainVars>>

CompileFunctionBody ==
    /\ cPc = "call" /\ cAst[1] = "Function"
    /\ Enter(getattr(cAst, "body"),
             FunctionEnvMap(cEnvMap, getattr(getattr(cAst, "arg"), "name")),
             cLevel + 1)

CompileApplyFunc ==
    /\ cPc = "call" /\ cAst[1] = "Apply"
    /\ Enter(getattr(cAst, "func"), cEnvMap, cLevel)

CompileApplyArg ==
    /\ cPc = "call" /\ cAst[1] = "Apply"
    /\ IsOk(compile_ast(getattr(cAst, "func"), cEnvMap, cLevel))
    /\ Enter(getattr(cAst, "arg"), cEnvMap, cLevel)

CompileLetValue ==
    /\ cPc = "call" /\ cAst[1] = "Let"
    /\ Enter(getattr(cAst, "value"), cEnvMap, cLevel)

CompileLetBody ==
    /\ cPc = "call" /\ cAst[1] = "Let"
    /\ IsOk(compile_ast(getattr(cAst, "value"), cEnvMap, cLevel))
    /\ Enter(getattr(cAst, "body"),
             LetEnvMap(cEnvMap, getattr(getattr(cAst, "name"), "name")), cLevel)

CompileBinOpLeft ==
    /\ cPc = "call" /\ cAst[1] = "BinOp"
    /\ Enter(getattr(cAst, "left"), cEnvMap, cLevel)

CompileBinOpRight ==
    /\ cPc = "call" /\ cAst[1] = "BinOp"
    /\ IsOk(compile_ast(getattr(cAst, "left"), cEnvMap, cLevel))
    /\ Enter(getattr(cAst, "right"), cEnvMap, cLevel)

CompNext ==
    \/ CompileReturn
    \/ CompileFunctionBody
    \/ CompileApplyFunc
    \/ CompileApplyArg
    \/ CompileLetValue
    \/ CompileLetBody
    \/ CompileBinOpLeft
    \/ CompileBinOpRight

(***************************************************************************)
(* Python's operators on the machine's values.                             *)
(***************************************************************************)
Abs(n) == IF n < 0 THEN 0 - n ELSE n
RECURSIVE GCD(_, _)
GCD(a, b) == IF b = 0 THEN a ELSE GCD(b, a % b)

\* a float is kept as the fraction it stands for, in lowest terms
FloatV(num, den) ==
    LET sign == IF (num < 0) = (den < 0) THEN 1 ELSE 0 - 1
        g == GCD(Abs(num), Abs(den))
    IN  <<"float", sign * (Abs(num) \div g), Abs(den) \div g>>

IsNum(v) == v[1] \in {"int", "bool", "float"}
IsList(v) == v[1] = "list"
IsClosure(v) == v[1] = "closure"
Numer(v) == v[2]
Denom(v) == IF v[1] = "float" THEN v[3] ELSE 1

\* bool(v)
Truthy(v) ==
    CASE IsNum(v) -> Numer(v) # 0
      [] IsList(v) -> Len(v[2]) > 0
      [] IsClosure(v) -> TRUE
      [] OTHER -> FALSE

\* xs * n for a list
RECURSIVE Repeat(_, _)
Repeat(xs, n) == IF n <= 0 THEN <<>> ELSE xs \o Repeat(xs, n - 1)

\* the instructions left in the list at `path`, the lists nested in them included
RECURSIVE CodeAt(_, _)
CodeAt(code, path) ==
    IF path = <<>> THEN code
    ELSE CodeAt(code[Head(path) \div 2][2 + (Head(path) % 2)], Tail(path))

\* the list objects of a program: the program itself is <<>>; the body of the
\* LDF at index i of list p is p \o <<2i>>, the branches of a SEL there are
\* p \o <<2i>> and p \o <<2i + 1>>
RECURSIVE Paths(_, _)
Paths(code, prefix) ==
    {prefix} \cup UNION {
        CASE code[i][1] = "LDF" -> Paths(code[i][2], Append(prefix, 2 * i))
          [] code[i][1] = "SEL" ->
                Paths(code[i][2], Append(prefix, 2 * i))
                \cup Paths(code[i][3], Append(prefix, 2 * i + 1))
          [] OTHER -> {}
        : i \in 1..Len(code)}

\* what is left of the list at `path`: pop(0) has taken `consumed[path]` items
Remaining(path) ==
    SubSeq(CodeAt(program, path), consumed[path] + 1, Len(CodeAt(program, path)))

\* the same with every nested list replaced by what is left of it
RECURSIVE RemainingDeep(_)
RemainingDeep(path) ==
    [k \in 1..Len(Remaining(path)) |->
        LET i == consumed[path] + k
            ins == CodeAt(program, path)[i]
        IN  CASE ins[1] = "LDF" -> <<"LDF", RemainingDeep(Append(path, 2 * i))>>
              [] ins[1] = "SEL" -> <<"SEL", RemainingDeep(Append(path, 2 * i)),
                                     RemainingDeep(Append(path, 2 * i + 1))>>
              [] OTHER -> ins]

\* a == b: "T", "F", or "E" when the comparison does not come back
\* (environments that contain themselves through a closure)
RECURSIVE PyEq(_, _, _)
PyEq(a, b, fuel) ==
    CASE fuel = 0 -> "E"
      [] IsNum(a) /\ IsNum(b) ->
            IF Numer(a) * Denom(b) = Numer(b) * Denom(a) THEN "T" ELSE "F"
      [] IsList(a) /\ IsList(b) ->
            IF Len(a[2]) # Len(b[2]) THEN "F"
            ELSE LET r == [i \in 1..Len(a[2]) |-> PyEq(a[2][i], b[2][i], fuel - 1)]
                     diff == {i \in 1..Len(a[2]) : r[i] # "T"}
                 IN  IF diff = {} THEN "T"
                     ELSE r[CHOOSE i \in diff : \A j \in diff : i <= j]
      [] IsClosure(a) /\ IsClosure(b) ->
            \* the dataclass compares (body, env) with (body, env)
            LET bodies == a[2] = b[2] \/ RemainingDeep(a[2]) = RemainingDeep(b[2])
                ea == envHeap[a[3]]
                eb == envHeap[b[3]]
            IN  IF ~bodies THEN "F"
                ELSE IF a[3] = b[3] THEN "T"
                ELSE PyEq(ListV(ea), ListV(eb), fuel - 1)
      [] a[1] = "none" /\ b[1] = "none" -> "T"
      [] OTHER -> "F"

EqFuel == 6

\* a < b (orEqual: a <= b): "T", "F", or "E" for a TypeError
RECURSIVE PyLess(_, _, _)
PyLess(a, b, orEqual) ==
    CASE IsNum(a) /\ IsNum(b) ->
            LET l == Numer(a) * Denom(b)
                r == Numer(b) * Denom(a)
            IN  IF l < r \/ (orEqual /\ l = r) THEN "T" ELSE "F"
      [] IsList(a) /\ IsList(b) ->
            LET n == IF Len(a[2]) < Len(b[2]) THEN Len(a[2]) ELSE Len(b[2])
                diff == {i \in 1..n : PyEq(a[2][i], b[2][i], EqFuel) # "T"}
            IN  IF diff = {}
                THEN IF Len(a[2]) < Len(b[2]) \/ (orEqual /\ Len(a[2]) = Len(b[2]))
                     THEN "T" ELSE "F"
                ELSE LET i == CHOOSE i \in diff : \A j \in diff : i <= j
                     IN  IF PyEq(a[2][i], b[2][i], EqFuel) = "E" THEN "E"
                         ELSE PyLess(a[2][i], b[2][i], orEqual)
      [] OTHER -> "E"

TriBool(t) ==
    IF t = "E" THEN Raise("TypeError", "") ELSE Ok(BoolV(t = "T"))

\* ops[op](a, b) of the arithmetic and comparison instructions
Arith(op, a, b) ==
    LET anyFloat == a[1] = "float" \/ b[1] = "float"
        an == Numer(a)
        ad == Denom(a)
        bn == Numer(b)
        bd == Denom(b)
        num(n, d) == IF anyFloat THEN FloatV(n, d) ELSE IntV(n)
    IN  CASE op = "EQ" ->
                IF PyEq(a, b, EqFuel) = "E" THEN Raise("RecursionError", "")
                ELSE Ok(BoolV(PyEq(a, b, EqFuel) = "T"))
          [] op = "LT" -> TriBool(PyLess(a, b, FALSE))
          [] op = "LE" -> TriBool(PyLess(a, b, TRUE))
          [] op = "ADD" /\ IsNum(a) /\ IsNum(b) -> Ok(num(an * bd + bn * ad, ad * bd))
          [] op = "ADD" /\ IsList(a) /\ IsList(b) -> Ok(ListV(a[2] \o b[2]))
          [] op = "SUB" /\ IsNum(a) /\ IsNum(b) -> Ok(num(an * bd - bn * ad, ad * bd))
          [] op = "MUL" /\ IsNum(a) /\ IsNum(b) -> Ok(num(an * bn, ad * bd))
          [] op = "MUL" /\ IsList(a) /\ b[1] \in {"int", "bool"} ->
                Ok(ListV(Repeat(a[2], bn)))
          [] op = "MUL" /\ IsList(b) /\ a[1] \in {"int", "bool"} ->
                Ok(ListV(Repeat(b[2], an)))
          [] op = "DIV" /\ IsNum(a) /\ IsNum(b) ->
                IF bn = 0 THEN Raise("ZeroDivisionError", "")
                ELSE Ok(FloatV(an * bd, ad * bn))
          [] OTHER -> Raise("TypeError", "")

(***************************************************************************)
(* SECDMachine.  `control` and a closure's body are paths (list objects of *)
(* the program); `env`, a closure's env and a saved env are indices into   *)
(* envHeap, the environment lists built so far.                            *)
(***************************************************************************)
Top(s) == s[Len(s)]
Pop(s) == SubSeq(s, 1, Len(s) - 1)

\* while self.control: the list `control` points at still has an instruction
Running == status = "running" /\ Len(Remaining(control)) > 0

\* instruction = self.control.pop(0)
InsIndex == consumed[control] + 1
Instruction == CodeAt(program, control)[InsIndex]
Pop0 == [consumed EXCEPT ![control] = @ + 1]

Known == {"NIL", "LDC", "LD", "CONS", "CAR", "CDR", "ATOM", "ADD", "SUB", "MUL",
          "DIV", "EQ", "LE", "LT", "SEL", "JOIN", "LDF", "AP", "RET", "DUM",
          "RAP", "LET"}

\* the registers after an instruction that went through
Goto(stk, e, c, d, heap) ==
    /\ stack' = stk /\ env' = e /\ control' = c /\ dump' = d /\ envHeap' = heap
    /\ consumed' = Pop0
    /\ UNCHANGED <<program, source, status, result>>
    /\ UNCHANGED <<compVars, parseVars, genVars, typeVars, mainVars>>

\* an exception leaves execute and run with the registers as they are then
Throw(kind, stk, d, heap) ==
    /\ stack' = stk /\ dump' = d /\ envHeap' = heap
    /\ consumed' = Pop0
    /\ status' = "error"
    /\ result' = Raise(kind, Instruction[1])
    /\ UNCHANGED <<program, source, env, control>>
    /\ UNCHANGED <<compVars, parseVars, genVars, typeVars, mainVars>>

\* an entry of the dump: (self.stack.copy(), self.env, self.control). `left`
\* records how many instructions the saved control list held at that moment
Saved(stk, e, c, by) ==
    [stack |-> stk, env |-> e, control |-> c, by |-> by,
     left |-> Len(CodeAt(program, c)) - consumed[c] - 1]

ExecNIL ==
    /\ Running /\ Instruction[1] = "NIL"
    /\ Goto(Append(stack, ListV(<<>>)), env, control, dump, envHeap)
    /\ UNCHANGED created

ExecLDC ==
    /\ Running /\ Instruction[1] = "LDC"
    /\ Goto(Append(stack, Instruction[2]), env, control, dump, envHeap)
    /\ UNCHANGED created

\* self.stack.append(self.env[i][j])
ExecLD ==
    /\ Running /\ Instruction[1] = "LD"
    /\ LET i == Instruction[2][1]
           j == Instruction[2][2]
           frames == envHeap[env]
       IN  IF i >= Len(frames)
           THEN Throw("IndexError", stack, dump, envHeap)
           ELSE IF ~IsList(frames[i + 1])
           THEN Throw("TypeError", stack, dump, envHeap)
           ELSE IF j >= Len(frames[i + 1][2])
           THEN Throw("IndexError", stack, dump, envHeap)
           ELSE Goto(Append(stack, frames[i + 1][2][j + 1]), env, control, dump,
                     envHeap)
    /\ UNCHANGED created

ExecCONS ==
    /\ Running /\ Instruction[1] = "CONS"
    /\ IF Len(stack) < 2
       THEN Throw("IndexError", <<>>, dump, envHeap)
       ELSE Goto(Append(Pop(Pop(stack)), ListV(<<Top(Pop(stack)), Top(stack)>>)),
                 env, control, dump, envHeap)
    /\ UNCHANGED created

\* pair[k] for CAR (k = 0) and CDR (k = 1)
ExecSubscript(k) ==
    IF Len(stack) = 0
    THEN Throw("IndexError", stack, dump, envHeap)
    ELSE IF ~IsList(Top(stack))
    THEN Throw("TypeError", Pop(stack), dump, envHeap)
    ELSE IF k >= Len(Top(stack)[2])
    THEN Throw("IndexError", Pop(stack), dump, envHeap)
    ELSE Goto(Append(Pop(stack), Top(stack)[2][k + 1]), env, control, dump, envHeap)

ExecCAR ==
    /\ Running /\ Instruction[1] = "CAR"
    /\ ExecSubscript(0)
    /\ UNCHANGED created

ExecCDR ==
    /\ Running /\ Instruction[1] = "CDR"
    /\ ExecSubscript(1)
    /\ UNCHANGED created

ExecATOM ==
    /\ Running /\ Instruction[1] = "ATOM"
    /\ IF Len(stack) = 0
       THEN Throw("IndexError", stack, dump, envHeap)
       ELSE Goto(Append(Pop(stack), BoolV(~IsList(Top(stack)))), env, control,
                 dump, envHeap)
    /\ UNCHANGED created

\* if isinstance(a, list) and len(a) > 0: a = a[0]
Unwrap(v) == IF IsList(v) /\ Len(v[2]) > 0 THEN v[2][1] ELSE v

ExecArith ==
    /\ Running
    /\ Instruction[1] \in {"ADD", "SUB", "MUL", "DIV", "EQ", "LE", "LT"}
    /\ IF Len(stack) < 2
       THEN Throw("IndexError", <<>>, dump, envHeap)
       ELSE LET b == Unwrap(Top(stack))
                a == Unwrap(Top(Pop(stack)))
                r == Arith(Instruction[1], a, b)
            IN  IF IsOk(r)
                THEN Goto(Append(Pop(Pop(stack)), r[2]), env, control, dump, envHeap)
                ELSE Throw(r[2], Pop(Pop(stack)), dump, envHeap)
    /\ UNCHANGED created

ExecSEL ==
    /\ Running /\ Instruction[1] = "SEL"
    /\ IF Len(stack) = 0
       THEN Throw("IndexError", stack, dump, envHeap)
       ELSE Goto(Pop(stack), env,
                 Append(control, 2 * InsIndex + (IF Truthy(Top(stack)) THEN 0 ELSE 1)),
                 Append(dump, Saved(Pop(stack), env, control, "SEL")), envHeap)
    /\ UNCHANGED created

\* self.stack, self.env, self.control = self.dump.pop()
ExecJOIN ==
    /\ Running /\ Instruction[1] = "JOIN"
    /\ IF Len(dump) = 0
       THEN Throw("IndexError", stack, dump, envHeap)
       ELSE Goto(Top(dump).stack, Top(dump).env, Top(dump).control, Pop(dump),
                 envHeap)
    /\ UNCHANGED created

\* Closure(arg, self.env): the body is the list object in the instruction
ExecLDF ==
    /\ Running /\ Instruction[1] = "LDF"
    /\ LET closure == Closure(Append(control, 2 * InsIndex), env)
       IN  /\ Goto(Append(stack, closure), env, control, dump, envHeap)
           /\ created' = created \cup
                {[closure |-> closure,
                  body |-> Remaining(closure[2]),
                  env |-> envHeap[env]]}

ExecAP ==
    /\ Running /\ Instruction[1] = "AP"
    /\ IF Len(stack) < 2
       THEN Throw("IndexError", <<>>, dump, envHeap)
       ELSE LET closure == Top(stack)
                args == Top(Pop(stack))
                rest == Pop(Pop(stack))
                saved == Append(dump, Saved(rest, env, control, "AP"))
                arg_value == IF IsList(args) /\ Len(args[2]) > 1
                             THEN args[2][2] ELSE args
                new_frame == ListV(<<arg_value>>)
            IN  IF ~IsClosure(closure)
                THEN Throw("AttributeError", <<>>, saved, envHeap)
                ELSE Goto(<<>>, Len(envHeap) + 1, closure[2], saved,
                          Append(envHeap, <<new_frame>> \o envHeap[closure[3]]))
    /\ UNCHANGED created

\* a return that leaves its entry on the dump
ExecRETKeepsEntry ==
    /\ Running /\ Instruction[1] = "RET"
    /\ IF Len(stack) = 0
       THEN Throw("IndexError", stack, dump, envHeap)
       ELSE IF Len(dump) = 0
       THEN Throw("IndexError", Pop(stack), dump, envHeap)
       ELSE Goto(Append(Top(dump).stack, Top(stack)), Top(dump).env,
                 Top(dump).control, dump, envHeap)
    /\ UNCHANGED created

ExecRET ==
    /\ Running /\ Instruction[1] = "RET"
    /\ IF Len(stack) = 0
       THEN Throw("IndexError", stack, dump, envHeap)
       ELSE IF Len(dump) = 0
       THEN Throw("IndexError", Pop(stack), dump, envHeap)
       ELSE Goto(Append(Top(dump).stack, Top(stack)), Top(dump).env,
                 Top(dump).control, Pop(dump), envHeap)
    /\ UNCHANGED created

\* self.env = [[]] + self.env
ExecDUM ==
    /\ Running /\ Instruction[1] = "DUM"
    /\ Goto(stack, Len(envHeap) + 1, control, dump,
            Append(envHeap, <<ListV(<<>>)>> \o envHeap[env]))
    /\ UNCHANGED created

\* a recursive apply that puts the argument frame on a new environment list
ExecRAPOnCopy ==
    /\ Running /\ Instruction[1] = "RAP"
    /\ IF Len(stack) < 2
       THEN Throw("IndexError", <<>>, dump, envHeap)
       ELSE LET closure == Top(stack)
                args == Top(Pop(stack))
                rest == Pop(Pop(stack))
                tail == IF envHeap[env] = <<>> THEN <<>> ELSE Tail(envHeap[env])
                heap1 == Append(envHeap, tail)
                saved == Append(dump, Saved(rest, Len(heap1), control, "RAP"))
                heap2 == Append(heap1, <<args>> \o tail)
            IN  IF envHeap[env] = <<>>
                THEN Throw("IndexError", <<>>, saved, heap1)
                ELSE IF ~IsClosure(closure)
                THEN Throw("AttributeError", <<>>, saved, heap2)
                ELSE Goto(<<>>, Len(heap2), closure[2], saved, heap2)
    /\ UNCHANGED created

\* the dump gets a copy of the tail of the environment; self.env[0] = args
\* then writes into the environment list itself
ExecRAP ==
    /\ Running /\ Instruction[1] = "RAP"
    /\ IF Len(stack) < 2
       THEN Throw("IndexError", <<>>, dump, envHeap)
       ELSE LET closure == Top(stack)
                args == Top(Pop(stack))
                rest == Pop(Pop(stack))
                tail == IF envHeap[env] = <<>> THEN <<>> ELSE Tail(envHeap[env])
                heap1 == Append(envHeap, tail)
                saved == Append(dump, Saved(rest, Len(heap1), control, "RAP"))
                heap2 == [heap1 EXCEPT ![env] = [@ EXCEPT ![1] = args]]
            IN  IF envHeap[env] = <<>>
                THEN Throw("IndexError", <<>>, saved, heap1)
                ELSE IF ~IsClosure(closure)
                THEN Throw("AttributeError", <<>>, saved, heap2)
                ELSE Goto(<<>>, env, closure[2], saved, heap2)
    /\ UNCHANGED created

\* new_frame = [None] * (bind_idx + 1); new_frame[bind_idx] = value
ExecLET ==
    /\ Running /\ Instruction[1] = "LET"
    /\ IF Len(stack) = 0
       THEN Throw("IndexError", stack, dump, envHeap)
       ELSE LET bind_idx == Instruction[2]
                new_frame == ListV([k \in 1..(bind_idx + 1) |->
                                      IF k = bind_idx + 1 THEN Top(stack) ELSE None])
            IN  Goto(Pop(stack), Len(envHeap) + 1, control, dump,
                     Append(envHeap, <<new_frame>> \o envHeap[env]))
    /\ UNCHANGED created

\* execute has no branch for any other opcode, and no else
ExecOther ==
    /\ Running /\ Instruction[1] \notin Known
    /\ Goto(stack, env, control, dump, envHeap)
    /\ UNCHANGED created

\* return self.stack[0] if self.stack else None
RunReturn ==
    /\ status = "running" /\ Len(Remaining(control)) = 0
    /\ status' = "done"
    /\ result' = IF Len(stack) > 0 THEN stack[1] ELSE None
    /\ UNCHANGED <<program, source, stack, env, control, dump, consumed, envHeap,
                   created>>
    /\ UNCHANGED <<compVars, parseVars, genVars, typeVars, mainVars>>

\* instruction lists written by hand: the instruction set is public
RawValues == {IntV(n) : n \in 0..MaxInt} \cup {BoolV(TRUE), BoolV(FALSE)}
Branch(v) == <<InsLDC(v), Ins("JOIN")>>
RawPrograms ==
    {<<InsLDC(a), InsLDC(b)>> : a \in RawValues, b \in RawValues}
    \cup {<<InsLDC(a), InsLDC(b), Ins(o)>> :
            a \in RawValues, b \in RawValues, o \in {"EQ", "LE", "LT", "DIV"}}
    \cup {<<InsLDC(a), InsLDC(c), InsSEL(Branch(IntV(1)), Branch(IntV(2))), InsLDC(b)>> :
            a \in RawValues, b \in RawValues, c \in RawValues}
    \cup {<<InsLDC(c), InsSEL(Branch(IntV(1)), Branch(IntV(2)))>> : c \in RawValues}
    \cup {<<Ins("NIL"), InsLDC(a), Ins("CONS"), Ins(o)>> :
            a \in RawValues, o \in {"CAR", "CDR", "ATOM", "MUL"}}
    \cup {<<InsLDC(a), Ins(o)>> : a \in RawValues, o \in {"CAR", "ATOM", "RET", "AP"}}
    \cup {<<Ins("NIL"), Ins("NIL"), Ins(o)>> : o \in {"ADD", "EQ", "LE", "SUB"}}
    \cup {<<Ins("DUM"), Ins("NIL"), InsLDC(a), Ins("CONS"),
            InsLDF(<<InsLD(<<0, 1>>), Ins("RET")>>), Ins("RAP"), InsLDC(b)>> :
            a \in RawValues, b \in RawValues}
    \cup {<<Ins("DUM"), InsLDF(<<InsLD(<<0, 0>>), Ins("RET")>>), Ins("NIL"),
            InsLD(<<0, 0>>), Ins("CONS"), Ins("CDR"),
            InsLDF(<<InsLD(<<0, 0>>), Ins("RET")>>), Ins("RAP")>>}
    \cup {<<Ins(o)>> : o \in {"JOIN", "RAP", "CONS"}}

\* what compile_ast makes of applications inside function bodies:
\* (λx.(x x) λy.y), (λx.(x x) λy.(y y)), (λf.(f 1) λy.(y + 1))
SelfApply == <<Ins("NIL"), InsLD(<<0, 0>>), Ins("CONS"), InsLD(<<0, 0>>), Ins("AP"),
               Ins("RET")>>
NestedApplyPrograms ==
    {<<Ins("NIL"), InsLDF(<<InsLD(<<0, 0>>), Ins("RET")>>), Ins("CONS"),
       InsLDF(SelfApply), Ins("AP")>>,
     <<Ins("NIL"), InsLDF(SelfApply), Ins("CONS"), InsLDF(SelfApply), Ins("AP")>>,
     <<Ins("NIL"), InsLDF(<<InsLD(<<0, 0>>), InsLDC(IntV(1)), Ins("ADD"), Ins("RET")>>),
       Ins("CONS"),
       InsLDF(<<Ins("NIL"), InsLDC(IntV(1)), Ins("CONS"), InsLD(<<0, 0>>), Ins("AP"),
                Ins("RET")>>),
       Ins("AP")>>}

\* (λy.((let x = 5 in x) + y) 1): a let followed by a use of the parameter
LetThenParameter ==
    Apply(Function(Var(<<"y">>),
                   BinOp("+", Let(Var(<<"x">>), IntLit(5), Var(<<"x">>)),
                              Var(<<"y">>))),
          IntLit(1))

\* a fresh SECDMachine, and what it is given: an expression for execute_ast,
\* or an instruction list for run
SecdInit ==
    /\ \/ /\ source \in Expressions \cup {LetThenParameter}
          /\ program = <<>>
       \/ /\ source = None
          /\ program \in RawPrograms \cup NestedApplyPrograms
    /\ stack = <<>>
    /\ env = 1
    /\ envHeap = << <<>> >>
    /\ control = <<>>
    /\ dump = <<>>
    /\ consumed = [p \in Paths(program, <<>>) |-> 0]
    /\ status = "new"
    /\ result = None
    /\ created = {}

\* execute_ast: instructions = compile_ast(ast, {}, 0); machine.run(instructions)
\* begins with self.control = control
ExecuteAst ==
    /\ status = "new" /\ source # None
    /\ LET instructions == compile_ast(source, EmptyMap, 0)
       IN  IF IsOk(instructions)
           THEN /\ program' = instructions[2]
                /\ consumed' = [p \in Paths(instructions[2], <<>>) |-> 0]
                /\ status' = "running"
                /\ UNCHANGED result
           ELSE /\ status' = "error"
                /\ result' = instructions
                /\ UNCHANGED <<program, consumed>>
    /\ UNCHANGED <<source, stack, env, control, dump, envHeap, created>>
    /\ UNCHANGED <<compVars, parseVars, genVars, typeVars, mainVars>>

\* run: self.control = control
Run ==
    /\ status = "new" /\ source = None
    /\ status' = "running"
    /\ UNCHANGED <<program, source, stack, env, control, dump, consumed, envHeap,
                   result, created>>
    /\ UNCHANGED <<compVars, parseVars, genVars, typeVars, mainVars>>

SecdIdle ==
    /\ source = None /\ program = <<>> /\ stack = <<>> /\ env = 1
    /\ envHeap = << <<>> >> /\ control = <<>> /\ dump = <<>>
    /\ consumed = [p \in {<<>>} |-> 0]
    /\ status = "idle" /\ result = None /\ created = {}

SecdNext ==
    \/ ExecuteAst
    \/ Run
    \/ ExecNIL
    \/ ExecLDC
    \/ ExecLD
    \/ ExecCONS
    \/ ExecCAR
    \/ ExecCDR
    \/ ExecATOM
    \/ ExecArith
    \/ ExecSEL
    \/ ExecJOIN
    \/ ExecLDF
    \/ ExecAP
    \/ ExecRET
    \/ ExecDUM
    \/ ExecRAP
    \/ ExecLET
    \/ ExecOther
    \/ RunReturn

(***************************************************************************)
(* CoreErlangGenerator.  Generated text is a sequence of pieces: the fixed *)
(* parts of the f-strings are one piece each, a name or a numeral is the   *)
(* sequence of its characters.                                             *)
(***************************************************************************)
\* "  " * self.indentation
indent(n) == [k \in 1..n |-> "  "]

\* name[0].upper() + name[1:] when name[0].islower()
generate_var(node) ==
    LET name == getattr(node, "name")
    IN  IF islower(name[1]) THEN <<upper(name[1])>> \o Tail(name) ELSE name

generate_int(node) == str(getattr(node, "value"))

generate_bool(node) == IF getattr(node, "value") THEN <<"'true'">> ELSE <<"'false'">>

\* generate_binop: op_map
gen_op_map ==
    [o \in {"+", "-", "*", "/", "&", "|", "!"} |->
        CASE o = "+" -> "'+'" [] o = "-" -> "'-'" [] o = "*" -> "'*'"
          [] o = "/" -> "'div'" [] o = "&" -> "'and'" [] o = "|" -> "'or'"
          [] o = "!" -> "'not'"]

\* generate, with generate_function, generate_apply, generate_let and
\* generate_binop; `ind` is self.indentation when the call is made
RECURSIVE generate(_, _)
generate(node, ind) ==
    CASE node[1] = "Int" -> Ok(generate_int(node))
      [] node[1] = "Bool" -> Ok(generate_bool(node))
      [] node[1] = "Var" -> Ok(generate_var(node))
      [] node[1] = "Function" ->
            LET param == generate_var(getattr(node, "arg"))
                body == generate(getattr(node, "body"), ind + 1)
            IN  IF ~IsOk(body) THEN body
                ELSE Ok(<<"fun(">> \o param \o <<") ->\n">> \o indent(ind)
                        \o body[2] \o <<"\n">>)
      [] node[1] = "Apply" ->
            LET func == generate(getattr(node, "func"), ind)
                arg == generate(getattr(node, "arg"), ind)
            IN  IF ~IsOk(func) THEN func
                ELSE IF ~IsOk(arg) THEN arg
                ELSE Ok(<<"apply ">> \o func[2] \o <<" (">> \o arg[2] \o <<")">>)
      [] node[1] = "Let" ->
            LET var == generate_var(getattr(node, "name"))
                value == generate(getattr(node, "value"), ind)
                body == generate(getattr(node, "body"), ind + 1)
            IN  IF ~IsOk(value) THEN value
                ELSE IF ~IsOk(body) THEN body
                ELSE Ok(<<"let <">> \o var \o <<"> =\n">> \o indent(ind) \o value[2]
                        \o <<"\nin\n">> \o indent(ind) \o body[2])
      [] node[1] = "BinOp" ->
            LET left == generate(getattr(node, "left"), ind)
                right == generate(getattr(node, "right"), ind)
            IN  IF ~IsOk(left) THEN left
                ELSE IF ~IsOk(right) THEN right
                ELSE IF getattr(node, "op") \notin DOMAIN gen_op_map
                THEN Raise("KeyError", getattr(node, "op"))
                ELSE Ok(<<"call 'erlang':", gen_op_map[getattr(node, "op")], " (">>
                        \o left[2] \o <<", ">> \o right[2] \o <<")">>)
      [] OTHER -> Raise("ValueError: Unknown AST node type", node[1])

\* generate_core_erlang: a fresh generator, then the module around the code
generate_core_erlang(ast) ==
    LET code == generate(ast, 0)
    IN  IF ~IsOk(code) THEN code
        ELSE Ok(<<"module 'mfl' ['main'/0]\nattributes ['file' = [{\"rune.mfl\",1}]]\n\n'main'/0 =\n  fun() -> ">>
                \o code[2] \o <<"\n\nend\n">>)

\* let x = 1 in let X = 2 in x, and the same with the names the other way:
\* two names that differ in the case of the first letter, bound in nested lets
CaseExamples ==
    {Let(Var(n), IntLit(1), Let(Var(m), IntLit(2), Var(n))) :
        n, m \in {<<"x">>, <<"X">>}}

GenInit ==
    /\ gNode \in Expressions \cup NameExpressions \cup CaseExamples
    /\ indentation = 0
    /\ gPc = "main"
    /\ gResult = None

GenIdle ==
    /\ gNode = None /\ indentation = 0 /\ gPc = "idle" /\ gResult = None

GenerateCoreErlang ==
    /\ gPc = "main"
    /\ gPc' = "done"
    /\ gResult' = generate_core_erlang(gNode)
    /\ UNCHANGED <<gNode, indentation>>
    /\ UNCHANGED <<compVars, secdVars, parseVars, typeVars, mainVars>>

\* one call of generate: the node and self.indentation at the call
GenEnter(node, ind) ==
    /\ gNode' = node /\ indentation' = ind /\ gPc' = "call"
    /\ UNCHANGED gResult
    /\ UNCHANGED <<compVars, secdVars, parseVars, typeVars, mainVars>>

GenerateCall ==
    /\ gPc = "main"
    /\ GenEnter(gNode, indentation)

GenerateReturn ==
    /\ gPc = "call"
    /\ gPc' = "returned"
    /\ gResult' = generate(gNode, indentation)
    /\ UNCHANGED <<gNode, indentation>>
    /\ UNCHANGED <<compVars, secdVars, parseVars, typeVars, mainVars>>

GenerateFunctionBody ==
    /\ gPc = "call" /\ gNode[1] = "Function"
    /\ GenEnter(getattr(gNode, "body"), indentation + 1)

GenerateApplyFunc ==
    /\ gPc = "call" /\ gNode[1] = "Apply"
    /\ GenEnter(getattr(gNode, "func"), indentation)

GenerateApplyArg ==
    /\ gPc = "call" /\ gNode[1] = "Apply"
    /\ IsOk(generate(getattr(gNode, "func"), indentation))
    /\ GenEnter(getattr(gNode, "arg"), indentation)

GenerateLetValue ==
    /\ gPc = "call" /\ gNode[1] = "Let"
    /\ GenEnter(getattr(gNode, "value"), indentation)

GenerateLetBody ==
    /\ gPc = "call" /\ gNode[1] = "Let"
    /\ IsOk(generate(getattr(gNode, "value"), indentation))
    /\ GenEnter(getattr(gNode, "body"), indentation + 1)

GenerateBinOpLeft ==
    /\ gPc = "call" /\ gNode[1] = "BinOp"
    /\ GenEnter(getattr(gNode, "left"), indentation)

GenerateBinOpRight ==
    /\ gPc = "call" /\ gNode[1] = "BinOp"
    /\ IsOk(generate(getattr(gNode, "left"), indentation))
    /\ GenEnter(getattr(gNode, "right"), indentation)

GenNext ==
    \/ GenerateCoreErlang
    \/ GenerateCall
    \/ GenerateReturn
    \/ GenerateFunctionBody
    \/ GenerateApplyFunc
    \/ GenerateApplyArg
    \/ GenerateLetValue
    \/ GenerateLetBody
    \/ GenerateBinOpLeft
    \/ GenerateBinOpRight

(***************************************************************************)
(* FunctionalParser.  A stack item is a raw token <<"tok", chars>> or a    *)
(* tagged pair <<"Expr", node>> / <<"IDENTIFIER", chars>>.                 *)
(***************************************************************************)
Special == {"(", ")", "λ", ".", "=", "+", "*", "/", "-", "&", "|", "!"}
Whitespace == {" ", "\n", "\t"}

KwLet == <<"l", "e", "t">>
KwIn == <<"i", "n">>
KwTrue == <<"T", "r", "u", "e">>
KwFalse == <<"F", "a", "l", "s", "e">>

\* tokenize: every special character padded with spaces, then split()
RECURSIVE Scan(_, _)
Scan(chars, word) ==
    LET flush == IF word = <<>> THEN <<>> ELSE <<word>>
    IN  IF chars = <<>> THEN flush
        ELSE IF Head(chars) \in Special
        THEN flush \o <<<<Head(chars)>>>> \o Scan(Tail(chars), <<>>)
        ELSE IF Head(chars) \in Whitespace
        THEN flush \o Scan(Tail(chars), <<>>)
        ELSE Scan(Tail(chars), Append(word, Head(chars)))
tokenize(input_str) == Scan(input_str, <<>>)

Tok(s) == <<"tok", s>>
IsTuple(item) == item[1] # "tok"
IsExpr(item) == item[1] = "Expr"
IsTok(item, s) == item[1] = "tok" /\ item[2] = s

Reduced(stk) == <<"reduced", stk>>
NoReduction == <<"none">>
Cut(stk, n) == SubSeq(stk, 1, Len(stk) - n)

\* try_terminal_reduction: the new stack, or NoReduction for False
try_terminal_reduction(stk) ==
    IF stk = <<>> THEN NoReduction
    ELSE LET top == Top(stk)
         IN  IF IsTuple(top) THEN NoReduction
             ELSE IF isdigit(top[2])
             THEN Reduced(Append(Pop(stk), <<"Expr", IntLit(int(top[2]))>>))
             ELSE IF top[2] \in {KwTrue, KwFalse}
             THEN Reduced(Append(Pop(stk), <<"Expr", BoolLit(top[2] = KwTrue)>>))
             ELSE IF /\ isalnum(top[2]) /\ ~isdigit(top[2])
                     /\ top[2] \notin {KwLet, KwIn, <<"λ">>, KwTrue, KwFalse}
             THEN Reduced(Append(Pop(stk), <<"IDENTIFIER", top[2]>>))
             ELSE NoReduction

\* the application rule's scan for the matching "(": the index of the item
\* it stops at (pos, counted from the left, 0 when it ran off the stack) and
\* the depth it stops with
RECURSIVE MatchParen(_, _, _)
MatchParen(stk, at, depth) ==
    IF depth = 0 \/ at < 1 THEN <<at + 1, depth>>
    ELSE MatchParen(stk, at - 1,
                    IF IsTok(stk[at], <<")">>) THEN depth + 1
                    ELSE IF IsTok(stk[at], <<"(">>) THEN depth - 1
                    ELSE depth)

\* a fold of the arguments from right to left
RECURSIVE FoldApplyRight(_, _)
FoldApplyRight(acc, exprs) ==
    IF exprs = <<>> THEN acc
    ELSE Apply(acc, FoldApplyRight(Head(exprs), Tail(exprs)))

\* result = exprs[0]; for arg in exprs[1:]: result = Apply(result, arg)
RECURSIVE FoldApply(_, _)
FoldApply(acc, exprs) ==
    IF exprs = <<>> THEN acc
    ELSE FoldApply(Apply(acc, Head(exprs)), Tail(exprs))

\* the payloads of the "Expr" items of a piece of the stack, in order
RECURSIVE ExprsOf(_)
ExprsOf(items) ==
    IF items = <<>> THEN <<>>
    ELSE (IF IsExpr(Head(items)) THEN <<Head(items)[2]>> ELSE <<>>)
         \o ExprsOf(Tail(items))

\* the rules of try_grammar_reduction, each: does its pattern match
NotMatches(stk) ==
    LET n == Len(stk)
    IN  n >= 2 /\ IsTok(stk[n - 1], <<"!">>) /\ IsExpr(stk[n])

LambdaMatches(stk) ==
    LET n == Len(stk)
    IN  /\ n >= 4
        /\ IsTok(stk[n - 3], <<"λ">>)
        /\ IsTuple(stk[n - 2])
        /\ IsTok(stk[n - 1], <<".">>)
        /\ IsExpr(stk[n])

ApplyScan(stk) == MatchParen(stk, Len(stk) - 1, 1)
ApplyExprs(stk) == ExprsOf(SubSeq(stk, ApplyScan(stk)[1] + 1, Len(stk) - 1))
ApplyMatches(stk) ==
    LET n == Len(stk)
    IN  /\ n >= 4
        /\ IsTok(stk[n], <<")">>)
        /\ \E k \in 1..n : IsTok(stk[k], <<"(">>)
        /\ ApplyScan(stk)[2] = 0
        /\ Len(ApplyExprs(stk)) >= 2

LetMatches(stk) ==
    LET n == Len(stk)
    IN  /\ n >= 6
        /\ IsTok(stk[n - 5], KwLet)
        /\ IsExpr(stk[n - 4])
        /\ IsTok(stk[n - 3], <<"=">>)
        /\ IsExpr(stk[n - 2])
        /\ IsTok(stk[n - 1], KwIn)
        /\ IsExpr(stk[n])

ParenMatches(stk) ==
    LET n == Len(stk)
    IN  /\ n >= 3
        /\ IsTok(stk[n - 2], <<"(">>)
        /\ IsExpr(stk[n - 1])
        /\ IsTok(stk[n], <<")">>)

BinOpMatches(stk) ==
    LET n == Len(stk)
    IN  /\ n >= 3
        /\ IsExpr(stk[n - 2])
        /\ stk[n - 1][1] = "tok"
        /\ stk[n - 1][2] \in {<<"+">>, <<"-">>, <<"*">>, <<"/">>, <<"&">>, <<"|">>}
        /\ IsExpr(stk[n])

\* try_grammar_reduction: the new stack, or NoReduction for False
try_grammar_reduction(stk) ==
    LET n == Len(stk)
    IN  IF n < 2 THEN NoReduction
        ELSE IF NotMatches(stk)
        THEN Reduced(Append(Cut(stk, 2), <<"Expr", UnaryOp("!", stk[n][2])>>))
        ELSE IF LambdaMatches(stk)
        THEN \* an IDENTIFIER's payload is a str, an Expr's a node
             IF stk[n - 2][1] = "IDENTIFIER"
             THEN Reduced(Append(Cut(stk, 4),
                                 <<"Expr", Function(Var(stk[n - 2][2]), stk[n][2])>>))
             ELSE IF stk[n - 2][2][1] = "Var"
             THEN Reduced(Append(Cut(stk, 4),
                                 <<"Expr", Function(stk[n - 2][2], stk[n][2])>>))
             ELSE NoReduction
        ELSE IF ApplyMatches(stk)
        THEN Reduced(Append(SubSeq(stk, 1, ApplyScan(stk)[1] - 1),
                            <<"Expr", FoldApply(Head(ApplyExprs(stk)),
                                                Tail(ApplyExprs(stk)))>>))
        ELSE IF LetMatches(stk)
        THEN IF stk[n - 4][2][1] # "Var" THEN NoReduction
             ELSE Reduced(Append(Cut(stk, 6),
                                 <<"Expr", Let(stk[n - 4][2], stk[n - 2][2], stk[n][2])>>))
        ELSE IF ParenMatches(stk)
        THEN Reduced(Append(Cut(stk, 3), <<"Expr", stk[n - 1][2]>>))
        ELSE IF BinOpMatches(stk)
        THEN Reduced(Append(Cut(stk, 3),
                            <<"Expr", BinOp(stk[n - 1][2][1], stk[n - 2][2], stk[n][2])>>))
        ELSE IF stk[n][1] = "INT_LITERAL"
        THEN Reduced(Append(Pop(stk), <<"Expr", IntLit(stk[n][2])>>))
        ELSE IF stk[n][1] = "IDENTIFIER"
        THEN Reduced(Append(Pop(stk), <<"Expr", Var(stk[n][2])>>))
        ELSE IF stk[n][1] = "tok" /\ isdigit(stk[n][2])
        THEN Reduced(Append(Pop(stk), <<"Expr", IntLit(int(stk[n][2]))>>))
        ELSE NoReduction

ExampleTexts == {
    \* y
    <<"y">>,
    \* 42
    <<"4", "2">>,
    \* (2 + 3)
    <<"(", "2", " ", "+", " ", "3", ")">>,
    \* (!True)
    <<"(", "!", "T", "r", "u", "e", ")">>,
    \* (True & False)
    <<"(", "T", "r", "u", "e", " ", "&", " ", "F", "a", "l", "s", "e", ")">>,
    \* let x = 5 in (x * 3)
    <<"l", "e", "t", " ", "x", " ", "=", " ", "5", " ", "i", "n", " ", "(", "x", " ",
        "*", " ", "3", ")">>,
    \* λx.x
    <<"λ", "x", ".", "x">>,
    \* (λx.x 42)
    <<"(", "λ", "x", ".", "x", " ", "4", "2", ")">>,
    \* let id = λx.x in (id 42)
    <<"l", "e", "t", " ", "i", "d", " ", "=", " ", "λ", "x", ".", "x", " ", "i",
      "n", " ", "(", "i", "d", " ", "4", "2", ")">>,
    \* (f a b)
    <<"(", "f", " ", "a", " ", "b", ")">>,
    \* let x = in 5
    <<"l", "e", "t", " ", "x", " ", "=", " ", "i", "n", " ", "5">>,
    \* λ5.x
    <<"λ", "5", ".", "x">>,
    \* let 3 = 1 in 2
    <<"l", "e", "t", " ", "3", " ", "=", " ", "1", " ", "i", "n", " ", "2">>,
    \* λTrue.x
    <<"λ", "T", "r", "u", "e", ".", "x">>,
    \* x + 1
    <<"x", " ", "+", " ", "1">>,
    \* 1 + 2 * 3
    <<"1", " ", "+", " ", "2", " ", "*", " ", "3">>,
    \* (y)
    <<"(", "y", ")">>,
    \* let x = 5 in let y = 7 in (x - y)
    <<"l", "e", "t", " ", "x", " ", "=", " ", "5", " ", "i", "n", " ", "l", "e",
      "t", " ", "y", " ", "=", " ", "7", " ", "i", "n", " ", "(", "x", " ", "-",
      " ", "y", ")">>,
    \* let f = λx.(x + 1) in ((f 1) + (f 2))
    <<"l", "e", "t", " ", "f", " ", "=", " ", "λ", "x", ".", "(", "x", " ", "+", " ",
        "1", ")", " ", "i", "n", " ", "(", "(", "f", " ", "1", ")", " ", "+", " ", "(", "f",
        " ", "2", ")", ")">>,
    \* (!y)
    <<"(", "!", "y", ")">>,
    \* (1 (+) 2)
    <<"(", "1", " ", "(", "+", ")", " ", "2", ")">>}

\* the tokens, joined by single spaces
RECURSIVE Join(_)
Join(tokens) ==
    IF tokens = <<>> THEN <<>>
    ELSE IF Len(tokens) = 1 THEN Head(tokens)
    ELSE Head(tokens) \o <<" ">> \o Join(Tail(tokens))

TokenAlphabet ==
    {<<"(">>, <<")">>, <<"λ">>, <<".">>, <<"=">>, <<"+">>, <<"!">>, KwLet, KwIn,
     KwTrue, <<"x">>, <<"y">>, <<"1">>, <<"4", "2">>, <<"x", "1">>}
TokenTexts ==
    {Join(ts) : ts \in UNION {[1..k -> TokenAlphabet] : k \in 1..MaxTokens}}

\* parenthesized sequences of completed expressions: each element is its
\* text and the node it stands for
MaxArgs == 3
AppElements ==
    {<<<<"f">>, Var(<<"f">>)>>, <<<<"a">>, Var(<<"a">>)>>, <<<<"b">>, Var(<<"b">>)>>,
     <<<<"1">>, IntLit(1)>>,
     <<<<"(", "g", " ", "a", ")">>, Apply(Var(<<"g">>), Var(<<"a">>))>>,
     <<<<"(", "1", " ", "+", " ", "2", ")">>, BinOp("+", IntLit(1), IntLit(2))>>,
     <<<<"λ", "x", ".", "x">>, Function(Var(<<"x">>), Var(<<"x">>))>>}
AppArgLists == UNION {[1..n -> AppElements] : n \in 2..MaxArgs}
AppText(args) ==
    <<"(">> \o Join([k \in 1..Len(args) |-> args[k][1]]) \o <<")">>
AppTexts == {AppText(args) : args \in AppArgLists}

\* parentheses around two expressions and a token that no rule reduces
StrayTexts ==
    {<<"(", "f", " ", "=", " ", "a", ")">>,
     <<"(", "f", " ", ".", " ", "a", ")">>,
     <<"(", "f", " ", "a", " ", "+", ")">>,
     <<"(", "f", " ", "(", ")", " ", "a", ")">>,
     <<"(", "f", " ", "i", "n", " ", "a", ")">>,
     <<"(", "f", " ", "l", "e", "t", " ", "a", " ", "b", ")">>}

\* lambdas and lets with a literal or a compound expression for a binder, alone
\* and inside other expressions
BinderTexts == {
    \* (λ5.x)
    <<"(", "λ", "5", ".", "x", ")">>,
    \* (f λ5.x)
    <<"(", "f", " ", "λ", "5", ".", "x", ")">>,
    \* (let 3 = 1 in 2)
    <<"(", "l", "e", "t", " ", "3", " ", "=", " ", "1", " ", "i", "n", " ", "2", ")">>,
    \* λ(f a).x
    <<"λ", "(", "f", " ", "a", ")", ".", "x">>,
    \* let (f a) = 1 in 2
    <<"l", "e", "t", " ", "(", "f", " ", "a", ")", " ", "=", " ", "1", " ", "i", "n", " ", "2">>,
    \* λx.λ5.x
    <<"λ", "x", ".", "λ", "5", ".", "x">>,
    \* (1 + λTrue.x)
    <<"(", "1", " ", "+", " ", "λ", "T", "r", "u", "e", ".", "x", ")">>}

\* chains of two binary operators over three operands, without parentheses
ChainOperators == {"+", "-", "*", "/", "&", "|"}
ChainTexts ==
    {Join(<<a, <<op1>>, b, <<op2>>, c>>) :
        a \in {<<"a">>, <<"1">>}, b \in {<<"b">>, <<"2">>}, c \in {<<"c">>, <<"3">>},
        op1 \in ChainOperators, op2 \in ChainOperators}

Texts ==
    ExampleTexts \cup TokenTexts \cup AppTexts \cup StrayTexts \cup BinderTexts
    \cup ChainTexts

\* FunctionalParser([], {}): an empty stack and buffer
ParseInit ==
    /\ text \in Texts
    /\ buffer = <<>>
    /\ pstack = <<>>
    /\ pstatus = "new"
    /\ past = None
    /\ pcalls = 0

ParseStep(stk, buf, st, ast) ==
    /\ pstack' = stk /\ buffer' = buf /\ pstatus' = st /\ past' = ast
    /\ UNCHANGED <<text, pcalls>>
    /\ UNCHANGED <<compVars, secdVars, genVars, typeVars, mainVars>>

\* parse: self.buffer = self.tokenize(input_str); self.stack = []
ParseCall ==
    /\ pstatus = "new"
    /\ ParseStep(<<>>, tokenize(text), "parsing", past)

\* while self.try_terminal_reduction() or self.try_grammar_reduction(): pass
TerminalReduction ==
    /\ pstatus = "parsing"
    /\ try_terminal_reduction(pstack) # NoReduction
    /\ ParseStep(try_terminal_reduction(pstack)[2], buffer, pstatus, past)

GrammarReduction ==
    /\ pstatus = "parsing"
    /\ try_terminal_reduction(pstack) = NoReduction
    /\ try_grammar_reduction(pstack) # NoReduction
    /\ ParseStep(try_grammar_reduction(pstack)[2], buffer, pstatus, past)

CanReduce ==
    \/ try_terminal_reduction(pstack) # NoReduction
    \/ try_grammar_reduction(pstack) # NoReduction

\* a shift taken whether or not a reduction applies
ShiftEager ==
    /\ pstatus = "parsing"
    /\ buffer # <<>>
    /\ ParseStep(Append(pstack, Tok(Head(buffer))), Tail(buffer), pstatus, past)

\* a shift that pushes the next token and leaves it in the buffer
ShiftKeepsBuffer ==
    /\ pstatus = "parsing" /\ ~CanReduce
    /\ buffer # <<>>
    /\ ParseStep(Append(pstack, Tok(Head(buffer))), buffer, pstatus, past)

\* next_token = self.buffer.pop(0); self.stack.append(next_token)
Shift ==
    /\ pstatus = "parsing" /\ ~CanReduce
    /\ buffer # <<>>
    /\ ParseStep(Append(pstack, Tok(Head(buffer))), Tail(buffer), pstatus, past)

\* return self.stack[0][1]
Accept ==
    /\ pstatus = "parsing" /\ ~CanReduce
    /\ buffer = <<>>
    /\ Len(pstack) = 1 /\ IsExpr(pstack[1])
    /\ ParseStep(pstack, buffer, "ok", pstack[1][2])

\* an end of input that hands back whatever expression lies on top
RejectPartial ==
    /\ pstatus = "parsing" /\ ~CanReduce
    /\ buffer = <<>>
    /\ ~(Len(pstack) = 1 /\ IsExpr(pstack[1]))
    /\ ParseStep(pstack, buffer, "ok",
                 IF pstack # <<>> /\ IsExpr(pstack[Len(pstack)])
                 THEN pstack[Len(pstack)][2] ELSE past)

\* raise ValueError(f"Parsing failed. Final stack: {self.stack}")
Reject ==
    /\ pstatus = "parsing" /\ ~CanReduce
    /\ buffer = <<>>
    /\ ~(Len(pstack) = 1 /\ IsExpr(pstack[1]))
    /\ ParseStep(pstack, buffer, "fail", past)

ParseNext ==
    \/ ParseCall
    \/ TerminalReduction
    \/ GrammarReduction
    \/ Shift
    \/ Accept
    \/ Reject

(***************************************************************************)
(* One parser object used for one call of parse after another: `pcalls`    *)
(* counts the calls that came before the current one.                      *)
(***************************************************************************)
MaxParseCalls == 2

\* parse as one function of its input, on a parser just made: the outcome,
\* the returned AST and the stack the call ends with
RECURSIVE Drive(_, _)
Drive(stk, buf) ==
    IF try_terminal_reduction(stk) # NoReduction
    THEN Drive(try_terminal_reduction(stk)[2], buf)
    ELSE IF try_grammar_reduction(stk) # NoReduction
    THEN Drive(try_grammar_reduction(stk)[2], buf)
    ELSE IF buf # <<>> THEN Drive(Append(stk, Tok(Head(buf))), Tail(buf))
    ELSE IF Len(stk) = 1 /\ IsExpr(stk[1]) THEN <<"ok", stk[1][2], stk>>
    ELSE <<"fail", None, stk>>

parse(input_str) == Drive(<<>>, tokenize(input_str))

ReparseTexts ==
    {<<"y">>, <<"4", "2">>, <<"(", "2", " ", "+", " ", "3", ")">>,
     <<"(", "f", " ", "a", " ", "b", ")">>, <<"(", "f", " ", ".", " ", "a", ")">>,
     <<"l", "e", "t", " ", "x", " ", "=", " ", "i", "n", " ", "5">>,
     <<"λ", "5", ".", "x">>, <<"x", " ", "+", " ", "1">>, <<"(", "(">>,
     <<"l", "e", "t", " ", "x", " ", "=", " ", "5", " ", "i", "n", " ", "(", "x",
       " ", "*", " ", "3", ")">>,
     <<"(", "λ", "x", ".", "x", " ", "4", "2", ")">>, <<")", " ", "x">>}

ReparseInit ==
    /\ text \in ReparseTexts
    /\ buffer = <<>>
    /\ pstack = <<>>
    /\ pstatus = "new"
    /\ past = None
    /\ pcalls = 0

\* a stack that the call before left behind and that the next call keeps
ParseAgainOnOldStack ==
    /\ pstatus \in {"ok", "fail"}
    /\ pcalls + 1 < MaxParseCalls
    /\ \E s \in ReparseTexts : text' = s /\ buffer' = tokenize(s)
    /\ pstatus' = "parsing" /\ past' = None
    /\ pcalls' = pcalls + 1
    /\ UNCHANGED <<pstack, compVars, secdVars, genVars, typeVars, mainVars>>

\* parse on the same object once more:
\* self.buffer = self.tokenize(input_str); self.stack = []
ParseAgain ==
    /\ pstatus \in {"ok", "fail"}
    /\ pcalls + 1 < MaxParseCalls
    /\ \E s \in ReparseTexts : text' = s /\ buffer' = tokenize(s)
    /\ pstack' = <<>>
    /\ pstatus' = "parsing" /\ past' = None
    /\ pcalls' = pcalls + 1
    /\ UNCHANGED <<compVars, secdVars, genVars, typeVars, mainVars>>

ReparseNext ==
    \/ ParseCall
    \/ TerminalReduction
    \/ GrammarReduction
    \/ Shift
    \/ Accept
    \/ Reject
    \/ ParseAgain

ParseIdle ==
    /\ text = <<>> /\ buffer = <<>> /\ pstack = <<>>
    /\ pstatus = "idle" /\ past = None /\ pcalls = 0

(***************************************************************************)
(* The type checker.  A type variable is the index of its creation (its    *)
(* name is "a" followed by that number); `fwd` holds the forwarded field   *)
(* of every type variable made so far, so Len(fwd) is tyvar_counter.       *)
(***************************************************************************)
TyVar(i) == <<"TyVar", i>>
TyCon(name, args) == <<"TyCon", name, args>>
Forall(tyvars, ty) == <<"Forall", tyvars, ty>>
IntType == TyCon("int", <<>>)
BoolType == TyCon("bool", <<>>)

\* the new type variable and the store that holds it
fresh_tyvar(fwd) == <<TyVar(Len(fwd) + 1), Append(fwd, None)>>

\* TyVar.find and MonoType.find
RECURSIVE find(_, _)
find(ty, fwd) ==
    IF ty[1] = "TyVar" /\ fwd[ty[2]] # None THEN find(fwd[ty[2]], fwd) ELSE ty

\* a make_equal_to that finds the chain end and leaves it unforwarded
make_equal_to_unset(self, other, fwd) == fwd

\* chain_end.forwarded = other
make_equal_to(self, other, fwd) == [fwd EXCEPT ![find(self, fwd)[2]] = other]

\* an occurs check that looks at the type itself and not at its arguments
occurs_in_shallow(var, ty, fwd) == find(ty, fwd) = var

RECURSIVE occurs_in(_, _, _)
occurs_in(var, ty, fwd) ==
    LET t == find(ty, fwd)
    IN  IF t[1] = "TyVar" THEN t[2] = var[2]
        ELSE \E i \in 1..Len(t[3]) : occurs_in(var, t[3][i], fwd)

\* unify_j: <<Ok(None), store>> or <<the exception, store>>
RECURSIVE unify_j(_, _, _)
RECURSIVE unify_args(_, _, _)
\* a unification of constructors that leaves their arguments alone
unify_args_skipped(ls, rs, fwd) == <<Ok(None), fwd>>

\* a unification of constructors that takes its bindings back when a pair
\* of arguments fails
unify_args_rollback(ls, rs, fwd) ==
    IF ls = <<>> \/ rs = <<>> THEN <<Ok(None), fwd>>
    ELSE LET u == unify_j(Head(ls), Head(rs), fwd)
             v == IF IsOk(u[1]) THEN unify_args(Tail(ls), Tail(rs), u[2]) ELSE u
         IN  IF IsOk(v[1]) THEN v ELSE <<v[1], fwd>>

\* a unification of constructors that stops after their first arguments
unify_args_first(ls, rs, fwd) ==
    IF ls = <<>> \/ rs = <<>> THEN <<Ok(None), fwd>>
    ELSE unify_j(Head(ls), Head(rs), fwd)

unify_args(ls, rs, fwd) ==
    IF ls = <<>> \/ rs = <<>> THEN <<Ok(None), fwd>>
    ELSE LET u == unify_j(Head(ls), Head(rs), fwd)
         IN  IF IsOk(u[1]) THEN unify_args(Tail(ls), Tail(rs), u[2]) ELSE u

\* a unify_j without the swap for a constructor met before a variable
unify_j_no_swap(t1, t2, fwd) ==
    LET ty1 == find(t1, fwd)
        ty2 == find(t2, fwd)
    IN  IF ty1[1] = "TyVar"
        THEN IF occurs_in(ty1, ty2, fwd)
             THEN <<Raise("Recursive type found", <<ty1, ty2>>), fwd>>
             ELSE <<Ok(None), make_equal_to(ty1, ty2, fwd)>>
        ELSE IF ty2[1] = "TyVar" \/ ty1[2] # ty2[2] \/ Len(ty1[3]) # Len(ty2[3])
        THEN <<Raise("Type mismatch", <<ty1, ty2>>), fwd>>
        ELSE unify_args(ty1[3], ty2[3], fwd)

\* a unify_j that binds a variable without the occurs check
unify_j_unchecked(t1, t2, fwd) ==
    LET ty1 == find(t1, fwd)
        ty2 == find(t2, fwd)
    IN  IF ty1[1] = "TyVar"
        THEN <<Ok(None), make_equal_to(ty1, ty2, fwd)>>
        ELSE IF ty2[1] = "TyVar" THEN <<Ok(None), make_equal_to(ty2, ty1, fwd)>>
        ELSE IF ty1[2] # ty2[2] \/ Len(ty1[3]) # Len(ty2[3])
        THEN <<Raise("Type mismatch", <<ty1, ty2>>), fwd>>
        ELSE unify_args(ty1[3], ty2[3], fwd)

unify_j(t1, t2, fwd) ==
    LET ty1 == find(t1, fwd)
        ty2 == find(t2, fwd)
    IN  IF ty1[1] = "TyVar"
        THEN IF occurs_in(ty1, ty2, fwd)
             THEN <<Raise("Recursive type found", <<ty1, ty2>>), fwd>>
             ELSE <<Ok(None), make_equal_to(ty1, ty2, fwd)>>
        ELSE IF ty2[1] = "TyVar" THEN unify_j(ty2, ty1, fwd)
        ELSE IF ty1[2] # ty2[2] \/ Len(ty1[3]) # Len(ty2[3])
        THEN <<Raise("Type mismatch", <<ty1, ty2>>), fwd>>
        ELSE unify_args(ty1[3], ty2[3], fwd)

\* a body context that is the copy alone, the new name never entered
CtxWithout(ctx, name, scheme) == ctx

\* body_ctx = ctx.copy(); body_ctx[name] = scheme
CtxWith(ctx, name, scheme) ==
    [n \in DOMAIN ctx \cup {name} |-> IF n = name THEN scheme ELSE ctx[n]]

\* the steps that went before, the one more unify_j left out
AndNoUnify(u, t1, t2) == u

\* one more unify_j after the steps `u` that went before it
AndUnify(u, t1, t2) == IF IsOk(u[1]) THEN unify_j(t1, t2, u[2]) ELSE u

\* A typing context is a dict, an object that a callee could write to:
\* `dicts` holds the dicts made so far and a context is an index into it.
\* a dict.copy() that hands back the very dict it was asked to copy
copy_alias(ctx, dicts) == <<ctx, dicts>>

\* ctx.copy(): the new dict and the dicts with it added
copy(ctx, dicts) == <<Len(dicts) + 1, Append(dicts, dicts[ctx])>>

\* ctx[name] = scheme
setitem(ctx, name, scheme, dicts) ==
    [dicts EXCEPT ![ctx] = CtxWith(dicts[ctx], name, scheme)]

\* infer_j: <<Ok(type), store, dicts>> or <<the exception, store, dicts>>
RECURSIVE infer_j(_, _, _, _)
infer_j(expr, ctx, fwd0, dicts) ==
    LET result_type == fresh_tyvar(fwd0)[1]
        fwd == fresh_tyvar(fwd0)[2]
        Return(u, d) == IF IsOk(u[1]) THEN <<Ok(find(result_type, u[2])), u[2], d>>
                        ELSE <<u[1], u[2], d>>
    IN  CASE expr[1] = "Var" ->
                IF getattr(expr, "name") \notin DOMAIN dicts[ctx]
                THEN <<Raise("Unbound variable", getattr(expr, "name")), fwd, dicts>>
                ELSE Return(unify_j(result_type,
                                    dicts[ctx][getattr(expr, "name")][3], fwd),
                            dicts)
          [] expr[1] = "Int" -> Return(unify_j(result_type, IntType, fwd), dicts)
          [] expr[1] = "Bool" -> Return(unify_j(result_type, BoolType, fwd), dicts)
          [] expr[1] = "Function" ->
                LET arg_type == fresh_tyvar(fwd)[1]
                    body_ctx == copy(ctx, dicts)[1]
                    body == infer_j(getattr(expr, "body"), body_ctx,
                                    fresh_tyvar(fwd)[2],
                                    setitem(body_ctx,
                                            getattr(getattr(expr, "arg"), "name"),
                                            Forall(<<>>, arg_type),
                                            copy(ctx, dicts)[2]))
                IN  IF ~IsOk(body[1]) THEN body
                    ELSE Return(unify_j(result_type,
                                        TyCon("->", <<arg_type, body[1][2]>>),
                                        body[2]),
                                body[3])
          [] expr[1] = "Apply" ->
                LET func == infer_j(getattr(expr, "func"), ctx, fwd, dicts)
                    arg == infer_j(getattr(expr, "arg"), ctx, func[2], func[3])
                    ret_type == fresh_tyvar(arg[2])[1]
                    expected_func_type == TyCon("->", <<arg[1][2], ret_type>>)
                IN  IF ~IsOk(func[1]) THEN func
                    ELSE IF ~IsOk(arg[1]) THEN arg
                    ELSE Return(AndUnify(unify_j(func[1][2], expected_func_type,
                                                 fresh_tyvar(arg[2])[2]),
                                         result_type, ret_type),
                                arg[3])
          [] expr[1] = "Let" ->
                LET value == infer_j(getattr(expr, "value"), ctx, fwd, dicts)
                    body_ctx == copy(ctx, value[3])[1]
                    body == infer_j(getattr(expr, "body"), body_ctx, value[2],
                                    setitem(body_ctx,
                                            getattr(getattr(expr, "name"), "name"),
                                            Forall(<<>>, value[1][2]),
                                            copy(ctx, value[3])[2]))
                IN  IF ~IsOk(value[1]) THEN value
                    ELSE IF ~IsOk(body[1]) THEN body
                    ELSE Return(unify_j(result_type, body[1][2], body[2]), body[3])
          [] expr[1] = "BinOp" ->
                LET left == infer_j(getattr(expr, "left"), ctx, fwd, dicts)
                    right == infer_j(getattr(expr, "right"), ctx, left[2], left[3])
                    operands == IF getattr(expr, "op") \in {"+", "-", "*", "/"}
                                THEN IntType ELSE BoolType
                IN  IF ~IsOk(left[1]) THEN left
                    ELSE IF ~IsOk(right[1]) THEN right
                    ELSE IF getattr(expr, "op") \notin {"+", "-", "*", "/", "&", "|"}
                    THEN <<Raise("Unknown binary operator", getattr(expr, "op")),
                           right[2], right[3]>>
                    ELSE Return(AndUnify(AndUnify(
                            unify_j(left[1][2], operands, right[2]),
                            right[1][2], operands), result_type, operands),
                                right[3])
          [] expr[1] = "UnaryOp" ->
                LET operand == infer_j(getattr(expr, "operand"), ctx, fwd, dicts)
                IN  IF ~IsOk(operand[1]) THEN operand
                    ELSE IF getattr(expr, "op") # "!"
                    THEN <<Raise("Unknown unary operator", getattr(expr, "op")),
                           operand[2], operand[3]>>
                    ELSE Return(AndUnify(unify_j(operand[1][2], BoolType, operand[2]),
                                         result_type, BoolType),
                                operand[3])
          [] OTHER -> <<Raise("Unknown expression type", expr[1]), fwd, dicts>>

\* TyVar.__repr__ and TyCon.__repr__: the text of a type, the name of a
\* constructor one piece, the name of a type variable "a" and its number
RECURSIVE repr(_, _)
RECURSIVE repr_args(_, _)
repr_args(args, fwd) ==
    IF Len(args) = 1 THEN repr(args[1], fwd)
    ELSE repr(Head(args), fwd) \o <<", ">> \o repr_args(Tail(args), fwd)

repr(ty, fwd) ==
    LET t == find(ty, fwd)
    IN  IF t[1] = "TyVar" THEN <<"a">> \o str(t[2])
        ELSE IF t[3] = <<>> THEN <<t[2]>>
        ELSE <<t[2], "(">> \o repr_args(t[3], fwd) \o <<")">>

\* the text of the exception a raise site builds, in the store of that moment
message(exc, fwd) ==
    CASE exc[2] \in {"Recursive type found", "Type mismatch"} ->
            <<exc[2], ": ">> \o repr(exc[3][1], fwd) \o <<" and ">>
                \o repr(exc[3][2], fwd)
      [] exc[2] = "Unbound variable" -> <<exc[2], " ">> \o exc[3]
      [] OTHER -> <<exc[2], ": ", exc[3]>>

(***************************************************************************)
(* Callers of unify_j: type variables are made one at a time and any two   *)
(* types over the variables made so far are unified, the bindings of one   *)
(* call staying in place for the next.                                     *)
(***************************************************************************)
MaxTyVars == 2
MaxUnifyCalls == 2

TyVars(fwd) == {TyVar(i) : i \in 1..Len(fwd)}
TypeAtoms(fwd) == TyVars(fwd) \cup {IntType, BoolType}
Types(fwd) ==
    TypeAtoms(fwd)
    \cup {TyCon("->", <<a, b>>) : a, b \in TypeAtoms(fwd)}
    \cup {TyCon("list", <<a>>) : a \in TypeAtoms(fwd)}
    \cup {TyCon("list", <<>>)}

UnifyInit ==
    /\ tyFwd = <<>>
    /\ uCalls = 0 /\ uArgs = None /\ uBefore = <<>> /\ uResult = None

InferIdle ==
    tcExpr = None /\ tcCtx = EmptyMap /\ tcOut = <<>> /\ tcDicts = <<EmptyMap>>

FreshTyVar ==
    /\ Len(tyFwd) < MaxTyVars
    /\ tyFwd' = fresh_tyvar(tyFwd)[2]
    /\ UNCHANGED <<unifyVars, inferVars, compVars, secdVars, parseVars, genVars, mainVars>>

UnifyJ ==
    /\ uCalls < MaxUnifyCalls
    /\ \E t1, t2 \in Types(tyFwd) :
         /\ uArgs' = <<t1, t2>>
         /\ uBefore' = tyFwd
         /\ uResult' = unify_j(t1, t2, tyFwd)[1]
         /\ tyFwd' = unify_j(t1, t2, tyFwd)[2]
    /\ uCalls' = uCalls + 1
    /\ UNCHANGED <<inferVars, compVars, secdVars, parseVars, genVars, mainVars>>

UnifyNext ==
    \/ FreshTyVar
    \/ UnifyJ

(***************************************************************************)
(* Callers of infer_j: one process infers the type of one expression in    *)
(* one context, once and then again, tyvar_counter and every type variable *)
(* living on from call to call.  A call's outcome is kept as the caller    *)
(* sees it: the returned type or the exception, and its text.              *)
(***************************************************************************)
MaxInferCalls == 2

Contexts == {EmptyMap, [n \in {<<"x">>} |-> Forall(<<>>, IntType)]}

\* one Function node standing at both application sites of an expression
Lambdas ==
    {Function(Var(<<"x">>), Var(<<"x">>)), Function(Var(<<"x">>), IntLit(1)),
     Function(Var(<<"x">>), Function(Var(<<"y">>), Var(<<"x">>)))}
SharedNode(node) ==
    {Let(Var(<<"y">>), Apply(node, IntLit(1)), Apply(node, BoolLit(TRUE))),
     Let(Var(<<"y">>), Apply(node, BoolLit(FALSE)), Apply(node, IntLit(2))),
     Apply(Apply(Function(Var(<<"x">>), Function(Var(<<"y">>), Var(<<"y">>))),
                 Apply(node, IntLit(1))),
           Apply(node, BoolLit(TRUE)))}
\* the same uses of one Function node reached through a name
NamedBy(binder, node) ==
    {IF binder = "let" THEN Let(Var(<<"f">>), node, use)
     ELSE Apply(Function(Var(<<"f">>), use), node) :
        use \in SharedNode(Var(<<"f">>))}
SharedNodeUses == UNION {SharedNode(node) : node \in Lambdas}
NamedLambdaUses ==
    UNION {NamedBy(binder, node) : binder \in {"let", "lambda"}, node \in Lambdas}

\* a let-bound identity function used once, and used at int and at bool
LetIdentity(use) ==
    Let(Var(<<"i", "d">>), Function(Var(<<"x">>), Var(<<"x">>)), use)
IntLits == {IntLit(n) : n \in 0..MaxInt} \cup {IntLit(42)}
BoolLits == {BoolLit(TRUE), BoolLit(FALSE)}
SingleUses == {LetIdentity(Apply(Var(<<"i", "d">>), n)) : n \in IntLits}
TwoTypeUses ==
    {LetIdentity(Let(Var(<<"a">>), Apply(Var(<<"i", "d">>), p[1]),
                     Apply(Var(<<"i", "d">>), p[2]))) :
        p \in {<<IntLit(1), BoolLit(TRUE)>>, <<BoolLit(TRUE), IntLit(1)>>,
               <<IntLit(0), BoolLit(FALSE)>>, <<BoolLit(FALSE), IntLit(42)>>}}

\* 42, (2 + 3), let x = 5 in (x * 3), (True & False), (!True) and the like
InferExamples ==
    {IntLit(42), BinOp("+", IntLit(2), IntLit(3)),
     Let(Var(<<"x">>), IntLit(5), BinOp("*", Var(<<"x">>), IntLit(3))),
     BinOp("&", BoolLit(TRUE), BoolLit(FALSE)), UnaryOp("!", BoolLit(TRUE)),
     Let(Var(<<"x">>), BoolLit(TRUE), BinOp("|", Var(<<"x">>), BoolLit(FALSE))),
     Let(Var(<<"x">>), BinOp("/", IntLit(4), IntLit(2)),
         Let(Var(<<"y">>), BinOp("-", Var(<<"x">>), IntLit(1)),
             BinOp("*", Var(<<"x">>), Var(<<"y">>)))),
     UnaryOp("!", BinOp("&", BoolLit(TRUE), UnaryOp("!", BoolLit(FALSE))))}

\* a binder of `b` with a use of `b` beside it, outside the binder's body
SiblingUses ==
    {Apply(Function(Var(<<"b">>), Var(<<"b">>)), Var(<<"b">>)),
     Apply(Let(Var(<<"b">>), IntLit(1), Var(<<"b">>)), Var(<<"b">>)),
     BinOp("+", Let(Var(<<"b">>), IntLit(1), Var(<<"b">>)), Var(<<"b">>)),
     Let(Var(<<"y">>), Function(Var(<<"b">>), Var(<<"b">>)), Var(<<"b">>)),
     Let(Var(<<"y">>), Let(Var(<<"b">>), IntLit(1), Var(<<"b">>)), Var(<<"b">>)),
     Function(Var(<<"y">>),
              BinOp("&", UnaryOp("!", Let(Var(<<"b">>), BoolLit(TRUE), Var(<<"b">>))),
                    Var(<<"b">>)))}

InferInit ==
    /\ tcExpr \in Expressions \cup SharedNodeUses \cup NamedLambdaUses
                  \cup SingleUses \cup TwoTypeUses \cup InferExamples
                  \cup SiblingUses
    /\ tcCtx \in Contexts
    /\ tcDicts = <<tcCtx>>
    /\ tcOut = <<>>
    /\ tyFwd = <<>>
    /\ uCalls = 0 /\ uArgs = None /\ uBefore = <<>> /\ uResult = None

InferJ ==
    /\ Len(tcOut) < MaxInferCalls
    /\ LET r == infer_j(tcExpr, 1, tyFwd, tcDicts)
       IN  /\ tyFwd' = r[2]
           /\ tcDicts' = <<r[3][1]>>
           /\ tcOut' = Append(tcOut,
                  IF IsOk(r[1]) THEN <<r[1], repr(r[1][2], r[2])>>
                  ELSE <<r[1], message(r[1], r[2])>>)
    /\ UNCHANGED <<tcExpr, tcCtx, unifyVars, compVars, secdVars, parseVars,
                   genVars, mainVars>>

InferNext ==
    \/ InferJ

TypeIdle == UnifyInit /\ InferIdle

(***************************************************************************)
(* main of mfl.py.  The command line is the expression, or None for the    *)
(* built-in test run, and the --secd flag.  main hands the AST to the      *)
(* components by calling them: parse and infer_j run to their end within   *)
(* the step that calls them, generate_core_erlang likewise, and            *)
(* execute_ast is entered with the AST as its argument (the run of the     *)
(* machine from there on is the SECD specification's).                     *)
(***************************************************************************)
test_exprs == <<
    <<"4", "2">>,
    <<"λ", "x", ".", "x">>,
    <<"(", "λ", "x", ".", "x", " ", "4", "2", ")">>,
    <<"l", "e", "t", " ", "i", "d", " ", "=", " ", "λ", "x", ".", "x", " ",
      "i", "n", " ", "(", "i", "d", " ", "4", "2", ")">>,
    <<"(", "2", " ", "+", " ", "3", ")">>,
    <<"l", "e", "t", " ", "x", " ", "=", " ", "5", " ", "i", "n", " ", "(",
      "x", " ", "*", " ", "3", ")">>,
    <<"l", "e", "t", " ", "d", "o", "u", "b", "l", "e", " ", "=", " ", "λ",
      "x", ".", "(", "x", "*", "2", ")", " ", "i", "n", " ", "(", "d", "o",
      "u", "b", "l", "e", " ", "2", "1", ")">>,
    <<"(", "!", "T", "r", "u", "e", ")">>,
    <<"(", "!", "F", "a", "l", "s", "e", ")">>,
    <<"(", "T", "r", "u", "e", " ", "&", " ", "T", "r", "u", "e", ")">>,
    <<"(", "F", "a", "l", "s", "e", " ", "|", " ", "F", "a", "l", "s", "e",
      ")">>,
    <<"(", "T", "r", "u", "e", " ", "|", " ", "T", "r", "u", "e", ")">>,
    <<"(", "F", "a", "l", "s", "e", " ", "&", " ", "F", "a", "l", "s", "e",
      ")">>,
    <<"l", "e", "t", " ", "x", " ", "=", " ", "T", "r", "u", "e", " ", "i",
      "n", " ", "(", "x", " ", "&", " ", "F", "a", "l", "s", "e", ")">>,
    <<"l", "e", "t", " ", "y", " ", "=", " ", "F", "a", "l", "s", "e", " ",
      "i", "n", " ", "(", "!", "y", ")">> >>

\* texts that parse and that infer_j refuses
IllTypedTexts == {
    <<"(", "1", " ", "+", " ", "T", "r", "u", "e", ")">>,
    <<"(", "1", " ", "2", ")">>,
    <<"(", "x", " ", "+", " ", "1", ")">>,
    <<"λ", "x", ".", "(", "x", " ", "x", ")">>,
    <<"(", "!", "5", ")">>,
    <<"l", "e", "t", " ", "x", " ", "=", " ", "T", "r", "u", "e", " ", "i",
      "n", " ", "(", "x", " ", "*", " ", "2", ")">>}

CommandLines ==
    {<<e, secd>> : e \in ExampleTexts \cup IllTypedTexts \cup {None},
                   secd \in BOOLEAN}

MainInit ==
    /\ mArgs \in CommandLines
    /\ mPc = "start"
    /\ mIndex = 0

MainIdle == mPc = "idle" /\ mArgs = None /\ mIndex = 0

\* the parser's variables after a whole call of parse
ParserAfter(input_str) ==
    /\ text' = input_str
    /\ pstatus' = parse(input_str)[1]
    /\ past' = parse(input_str)[2]
    /\ pstack' = parse(input_str)[3]
    /\ buffer' = <<>>
    /\ UNCHANGED pcalls

\* the type checker's variables after infer_j(ast, {})
CheckerAfter(ast) ==
    /\ tcExpr' = ast
    /\ tcCtx' = EmptyMap
    /\ tyFwd' = infer_j(ast, 1, tyFwd, <<EmptyMap>>)[2]
    /\ tcDicts' = <<infer_j(ast, 1, tyFwd, <<EmptyMap>>)[3][1]>>
    /\ tcOut' = Append(tcOut,
           LET r == infer_j(ast, 1, tyFwd, <<EmptyMap>>)
           IN  IF IsOk(r[1]) THEN <<r[1], repr(r[1][2], r[2])>>
               ELSE <<r[1], message(r[1], r[2])>>)
    /\ UNCHANGED unifyVars

\* ast = parser.parse(args.expression); except ValueError: print("Parse error")
MainParse ==
    /\ mPc = "start" /\ mArgs[1] # None
    /\ ParserAfter(mArgs[1])
    /\ mPc' = IF parse(mArgs[1])[1] = "ok" THEN "parsed" ELSE "done"
    /\ UNCHANGED <<mArgs, mIndex, compVars, secdVars, genVars, typeVars>>

\* a type check whose failure is reported and does not stop the backend
MainInferForDiagnostics ==
    /\ mPc = "parsed"
    /\ CheckerAfter(past)
    /\ mPc' = IF mArgs[2] THEN "secd" ELSE "generate"
    /\ UNCHANGED <<mArgs, mIndex, compVars, secdVars, genVars, parseVars>>

\* expr_type = infer_j(ast, type_ctx); except: print("Error during type checking")
MainInfer ==
    /\ mPc = "parsed"
    /\ CheckerAfter(past)
    /\ mPc' = IF ~IsOk(infer_j(past, 1, tyFwd, <<EmptyMap>>)[1]) THEN "done"
              ELSE IF mArgs[2] THEN "secd" ELSE "generate"
    /\ UNCHANGED <<mArgs, mIndex, compVars, secdVars, genVars, parseVars>>

\* if args.secd: result = execute_ast(ast, args.verbose)
MainSecd ==
    /\ mPc = "secd"
    /\ source' = past /\ status' = "new"
    /\ mPc' = "done"
    /\ UNCHANGED <<program, stack, env, control, dump, consumed, envHeap, result,
                   created>>
    /\ UNCHANGED <<mArgs, mIndex, compVars, parseVars, genVars, typeVars>>

\* else: core_erlang = generate_core_erlang(ast, expr_type)
MainGenerate ==
    /\ mPc = "generate"
    /\ gNode' = past /\ gPc' = "done"
    /\ gResult' = generate_core_erlang(past)
    /\ mPc' = "done"
    /\ UNCHANGED indentation
    /\ UNCHANGED <<mArgs, mIndex, compVars, secdVars, parseVars, typeVars>>

\* for expr_str in test_exprs: ast = parser.parse(expr_str)
MainTestParse ==
    /\ mPc \in {"start", "test"} /\ mArgs[1] = None
    /\ mIndex < Len(test_exprs)
    /\ mIndex' = mIndex + 1
    /\ ParserAfter(test_exprs[mIndex + 1])
    /\ mPc' = IF parse(test_exprs[mIndex + 1])[1] = "ok" THEN "test_parsed"
              ELSE "test"
    /\ UNCHANGED <<mArgs, compVars, secdVars, genVars, typeVars>>

\* expr_type = infer_j(ast, type_ctx); except: print("Type error")
MainTestInfer ==
    /\ mPc = "test_parsed"
    /\ CheckerAfter(past)
    /\ mPc' = "test"
    /\ UNCHANGED <<mArgs, mIndex, compVars, secdVars, genVars, parseVars>>

MainNext ==
    \/ MainParse
    \/ MainInfer
    \/ MainSecd
    \/ MainGenerate
    \/ MainTestParse
    \/ MainTestInfer

(***************************************************************************)
(* Direct evaluation: the meaning of an expression, independent of the     *)
(* machine.  `rho` maps a name to the value bound to it.                   *)
(***************************************************************************)
Stuck == <<"stuck">>
FunV(param, body, rho) == <<"fun", param, body, rho>>
Bind(rho, name, v) == [n \in DOMAIN rho \cup {name} |-> IF n = name THEN v ELSE rho[n]]

RECURSIVE Eval(_, _)
Eval(e, rho) ==
    CASE e[1] = "Int" -> IntV(e[2])
      [] e[1] = "Bool" -> BoolV(e[2])
      [] e[1] = "Var" -> IF e[2] \in DOMAIN rho THEN rho[e[2]] ELSE Stuck
      [] e[1] = "Function" -> FunV(e[2][2], e[3], rho)
      [] e[1] = "Apply" ->
            LET f == Eval(e[2], rho)
                a == Eval(e[3], rho)
            IN  IF f[1] = "fun" /\ a[1] # "stuck"
                THEN Eval(f[3], Bind(f[4], f[2], a))
                ELSE Stuck
      [] e[1] = "Let" ->
            LET v == Eval(e[3], rho)
            IN  IF v[1] = "stuck" THEN Stuck ELSE Eval(e[4], Bind(rho, e[2][2], v))
      [] e[1] = "BinOp" ->
            LET l == Eval(e[3], rho)
                r == Eval(e[4], rho)
            IN  IF e[2] \in {"+", "-", "*"} /\ l[1] = "int" /\ r[1] = "int"
                THEN IntV(CASE e[2] = "+" -> l[2] + r[2]
                            [] e[2] = "-" -> l[2] - r[2]
                            [] OTHER -> l[2] * r[2])
                ELSE IF e[2] \in {"&", "|"} /\ l[1] = "bool" /\ r[1] = "bool"
                THEN BoolV(IF e[2] = "&" THEN l[2] = 1 /\ r[2] = 1
                           ELSE l[2] = 1 \/ r[2] = 1)
                ELSE Stuck
      [] e[1] = "UnaryOp" ->
            LET v == Eval(e[3], rho)
            IN  IF e[2] = "!" /\ v[1] = "bool" THEN BoolV(v[2] = 0) ELSE Stuck
      [] OTHER -> Stuck

\* the variable references of e that no enclosing lambda or let of e binds
RECURSIVE FreeVars(_)
FreeVars(e) ==
    CASE e[1] = "Var" -> {e[2]}
      [] e[1] = "Function" -> FreeVars(e[3]) \ {e[2][2]}
      [] e[1] = "Apply" -> FreeVars(e[2]) \cup FreeVars(e[3])
      [] e[1] = "Let" -> FreeVars(e[3]) \cup (FreeVars(e[4]) \ {e[2][2]})
      [] e[1] = "BinOp" -> FreeVars(e[3]) \cup FreeVars(e[4])
      [] e[1] = "UnaryOp" -> FreeVars(e[3])
      [] OTHER -> {}

\* the node kinds used in e
RECURSIVE Kinds(_)
Kinds(e) ==
    {e[1]} \cup
    CASE e[1] = "Function" -> Kinds(e[3])
      [] e[1] = "Apply" -> Kinds(e[2]) \cup Kinds(e[3])
      [] e[1] = "Let" -> Kinds(e[3]) \cup Kinds(e[4])
      [] e[1] = "BinOp" -> Kinds(e[3]) \cup Kinds(e[4])
      [] e[1] = "UnaryOp" -> Kinds(e[3])
      [] OTHER -> {}

\* the operators used in e
RECURSIVE OpsOf(_)
OpsOf(e) ==
    CASE e[1] = "Function" -> OpsOf(e[3])
      [] e[1] = "Apply" -> OpsOf(e[2]) \cup OpsOf(e[3])
      [] e[1] = "Let" -> OpsOf(e[3]) \cup OpsOf(e[4])
      [] e[1] = "BinOp" -> {e[2]} \cup OpsOf(e[3]) \cup OpsOf(e[4])
      [] e[1] = "UnaryOp" -> {e[2]} \cup OpsOf(e[3])
      [] OTHER -> {}

\* a closed expression with a value: no free variable, and evaluation gives
\* an integer or a boolean
HasValue(e) == FreeVars(e) = {} /\ Eval(e, <<>>)[1] \in {"int", "bool"}

\* execute_ast has come back, with a value or with an exception
Finished == status \in {"done", "error"} /\ source # None

(***************************************************************************)
(* Properties.                                                             *)
(***************************************************************************)
\* C1: for every closed expression built from integer literals, + - *,
\* variables and let-bindings nested to any depth, run(compile_ast(e)) returns
\* the value of e under direct evaluation: every variable reference loads the
\* value bound by its nearest enclosing let of that name.
LetArithmeticMatchesEvaluation ==
    (/\ Finished
     /\ Kinds(source) \subseteq {"Int", "Var", "Let", "BinOp"}
     /\ OpsOf(source) \subseteq {"+", "-", "*"}
     /\ HasValue(source))
        => result = Eval(source, <<>>)

\* C2: for every closed expression that applies a lambda to an argument,
\* run(compile_ast(e)) is the value of the lambda's body with the parameter
\* bound to the argument, for every application of a closure, also when one
\* let-bound closure is applied more than once in the program.
ApplicationMatchesEvaluation ==
    (/\ Finished
     /\ "Apply" \in Kinds(source)
     /\ HasValue(source))
        => result = Eval(source, <<>>)

\* C3: for every closed expression over integer and boolean literals combined
\* with + - * & | and unary !, compile_ast succeeds and run returns the value
\* of the expression under direct evaluation.
LiteralOperatorsMatchEvaluation ==
    (/\ Finished
     /\ Kinds(source) \subseteq {"Int", "Bool", "BinOp", "UnaryOp"}
     /\ OpsOf(source) \subseteq {"+", "-", "*", "&", "|", "!"}
     /\ HasValue(source))
        => result = Eval(source, <<>>)

\* C4: once the control sequence is exhausted run returns the value on top of
\* the stack, the most recently pushed value still on it, and none when the
\* stack is empty.
RunReturnsTopOfStack ==
    status = "done" => result = (IF Len(stack) = 0 THEN None ELSE Top(stack))

\* C5: no instruction mutates a Closure after its creation: the body
\* instruction sequence and the captured environment of every closure stay as
\* they were when LDF created it.
ClosureNeverMutated ==
    \A c \in created :
        /\ Remaining(c.closure[2]) = c.body
        /\ envHeap[c.closure[3]] = c.env

\* the binding map the body of Lambda(x, body) is to be compiled with: x at
\* (0, 0), every other bound name one level deeper
ShadowingEnvMap(env_map, name) ==
    [v \in DOMAIN env_map \cup {name} |->
        IF v = name THEN <<0, 0>> ELSE <<env_map[v][1] + 1, env_map[v][2]>>]

\* C6: compiling Lambda(x, body) compiles body with x at address (0, 0), also
\* when an enclosing lambda or let already binds x, and with every other
\* previously bound name at its depth plus one.
LambdaParameterShadows ==
    (cPc = "returned" /\ cAst[1] = "Function") =>
        LET body_code == compile_ast(getattr(cAst, "body"),
                                     ShadowingEnvMap(cEnvMap,
                                         getattr(getattr(cAst, "arg"), "name")),
                                     cLevel + 1)
        IN  cResult = IF IsOk(body_code)
                      THEN Ok(<<InsLDF(body_code[2] \o <<Ins("RET")>>)>>)
                      ELSE body_code

\* C7: when a branch entered by SEL ends with JOIN, the stack becomes the
\* stack saved by SEL with the branch's result on top, the environment is the
\* saved one, and control continues with the instructions that followed SEL.
JoinKeepsBranchResult ==
    [][(/\ Running /\ Instruction[1] = "JOIN"
        /\ Len(dump) > 0 /\ Top(dump).by = "SEL"
        /\ Len(stack) > 0)
            => (/\ stack' = Append(Top(dump).stack, Top(stack))
                /\ env' = Top(dump).env
                /\ control' = Top(dump).control)]_vars

\* C8: for the source text y, a single identifier, infer(parse("y"), {}) fails
\* with an unbound-variable error naming y, and compile(parse("y"), {}, 0)
\* fails with an unbound-variable error naming the same y.
UnboundVariableThroughFrontEnd ==
    (text = <<"y">> /\ pstatus \in {"ok", "fail"}) =>
        /\ pstatus = "ok"
        /\ infer_j(past, 1, <<>>, <<EmptyMap>>)[1] = Raise("Unbound variable", <<"y">>)
        /\ compile_ast(past, EmptyMap, 0)
            = Raise("ValueError: Unbound variable", <<"y">>)

\* C9: started with an empty binding map, compile_ast fails with an
\* unbound-variable error for every expression with a variable reference that
\* no enclosing lambda or let binds, wherever the reference occurs, operands
\* of binary and unary operators included; no load is emitted for it.
FreeVariableAlwaysRejected ==
    (cPc = "returned" /\ DOMAIN cEnvMap = {} /\ FreeVars(cAst) # {}) =>
        /\ cResult[1] = "raise"
        /\ cResult[2] = "ValueError: Unbound variable"
        /\ cResult[3] \in FreeVars(cAst)

\* an expression of the data model: Var, IntLit, BoolLit, Lambda, Apply, Let,
\* BinOp over + - * / & |, UnaryOp with !
InDataModel(e) ==
    /\ Kinds(e) \subseteq {"Var", "Int", "Bool", "Function", "Apply", "Let",
                           "BinOp", "UnaryOp"}
    /\ OpsOf(e) \subseteq {"+", "-", "*", "/", "&", "|", "!"}

\* C10: generate returns text for every expression built from the variants of
\* the data model (Var, IntLit, BoolLit, Lambda, Apply, Let, BinOp, UnaryOp);
\* the unsupported-node error is only for a node outside that set.
GenerateCoversDataModel ==
    (gPc = "returned" /\ InDataModel(gNode)) => IsOk(gResult)

\* the token is one the parser makes an identifier of
IsIdentifier(name) ==
    try_terminal_reduction(<<Tok(name)>>) = Reduced(<<<<"IDENTIFIER", name>>>>)

\* the name at the head of the text generated for a reference, a lambda or a
\* let: the text itself, or what follows "fun(" or "let <"
RenderedName(node, pieces) ==
    LET name == IF node[1] = "Var" THEN node[2] ELSE node[2][2]
        skip == IF node[1] = "Var" THEN 0 ELSE 1
    IN  SubSeq(pieces, skip + 1, skip + Len(name))

\* C11: every variable name the generator renders (a reference, a lambda
\* parameter, a let-bound name) begins with an uppercase letter and is
\* otherwise the source name, for every identifier the parser can produce.
RenderedNamesCapitalized ==
    (/\ gPc = "returned" /\ IsOk(gResult)
     /\ gNode[1] \in {"Var", "Function", "Let"}
     /\ IsIdentifier(IF gNode[1] = "Var" THEN gNode[2] ELSE gNode[2][2]))
        => /\ RenderedName(gNode, gResult[2])[1] \in UpperSet
           /\ Tail(RenderedName(gNode, gResult[2]))
                = Tail(IF gNode[1] = "Var" THEN gNode[2] ELSE gNode[2][2])

\* the type `ty` stands for, every unbound type variable named by the first
\* made of the type variables that share its representative
RECURSIVE Canon(_, _)
Canon(ty, fwd) ==
    LET t == find(ty, fwd)
        Class == {i \in 1..Len(fwd) : find(TyVar(i), fwd) = t}
    IN  IF t[1] = "TyVar"
        THEN TyVar(CHOOSE i \in Class : \A j \in Class : i <= j)
        ELSE TyCon(t[2], [k \in 1..Len(t[3]) |-> Canon(t[3][k], fwd)])

Swapped == unify_j(uArgs[2], uArgs[1], uBefore)

\* C12: unify_j(t1, t2) and unify_j(t2, t1), started from the same bindings,
\* succeed together or fail with the same kind of error, and after success
\* every type variable stands for the same type in both, whichever variable
\* of a class was left as its representative.
UnifySymmetricInEffect ==
    uCalls > 0 =>
        /\ IsOk(uResult) = IsOk(Swapped[1])
        /\ ~IsOk(uResult) => uResult[2] = Swapped[1][2]
        /\ IsOk(uResult) =>
              \A i \in 1..Len(uBefore) :
                  Canon(TyVar(i), tyFwd) = Canon(TyVar(i), Swapped[2])

\* two variables were unified and each order forwards a different one
UnifiedEitherWay ==
    /\ uCalls > 0 /\ IsOk(uResult)
    /\ \E i \in 1..Len(uBefore) :
         /\ Swapped[2][i] # tyFwd[i]
         /\ Canon(TyVar(i), tyFwd) # TyVar(i)

\* the type variables written in a type
RECURSIVE TyVarsIn(_)
TyVarsIn(ty) ==
    IF ty[1] = "TyVar" THEN {ty[2]}
    ELSE UNION {TyVarsIn(ty[3][k]) : k \in 1..Len(ty[3])}

Pointed(i, fwd) == IF fwd[i] = None THEN {} ELSE TyVarsIn(fwd[i])

\* the type variables met within n more steps of following forwarded and
\* descending into arguments
RECURSIVE Reach(_, _, _)
Reach(seen, fwd, n) ==
    IF n = 0 THEN seen
    ELSE Reach(seen \cup UNION {Pointed(i, fwd) : i \in seen}, fwd, n - 1)

\* C13: after any sequence of unify_j calls, following forwarded from a type
\* variable and descending into constructor arguments never comes back to
\* that variable.
NoForwardingCycle ==
    \A i \in 1..Len(tyFwd) : i \notin Reach(Pointed(i, tyFwd), tyFwd, Len(tyFwd))

\* the occurs check refused a binding that would have closed a cycle through
\* an earlier binding
CycleRefused ==
    /\ uCalls > 1 /\ ~IsOk(uResult) /\ uResult[2] = "Recursive type found"
    /\ find(uArgs[1], tyFwd) # find(uArgs[2], tyFwd)
    /\ \E i \in 1..Len(tyFwd) : Pointed(i, tyFwd) # {}

\* a call's returned value or exception, and its text
Outcome(k) == tcOut[k][1]
OutputText(k) == tcOut[k][2]

\* C14: a top-level infer_j call repeated on the same expression and context
\* in the same process gives the same output as the first time, the names of
\* the type variables in the type or in the error included.
RepeatedInferenceSameOutput ==
    Len(tcOut) >= 2 =>
        /\ IsOk(Outcome(1)) = IsOk(Outcome(2))
        /\ OutputText(1) = OutputText(2)

LetBoundIdentityNotGeneralized ==
    \A k \in 1..Len(tcOut) :
        /\ tcExpr \in TwoTypeUses =>
              /\ ~IsOk(Outcome(k)) /\ Outcome(k)[2] = "Type mismatch"
              /\ {repr(Outcome(k)[3][1], tyFwd), repr(Outcome(k)[3][2], tyFwd)}
                     = {<<"int">>, <<"bool">>}
        /\ tcExpr \in SingleUses => Outcome(k) = Ok(IntType)

\* let id = λx.x in let a = (id 1) in (id True) has been refused
LetIdentityAtTwoTypes ==
    /\ tcExpr = LetIdentity(Let(Var(<<"a">>), Apply(Var(<<"i", "d">>), IntLit(1)),
                                Apply(Var(<<"i", "d">>), BoolLit(TRUE))))
    /\ tcOut # <<>>
    /\ OutputText(1) = <<"Type mismatch", ": ", "int", " and ", "bool">>

\* C17: the type returned for the identity function in an empty context is a
\* function type whose argument and result resolve to one and the same
\* unbound type variable.
IdentityFunctionType ==
    (tcExpr \in {Function(Var(n), Var(n)) : n \in Names} /\ tcCtx = EmptyMap) =>
        \A k \in 1..Len(tcOut) :
            /\ IsOk(Outcome(k))
            /\ Outcome(k)[2][1] = "TyCon" /\ Outcome(k)[2][2] = "->"
            /\ Len(Outcome(k)[2][3]) = 2
            /\ find(Outcome(k)[2][3][1], tyFwd)[1] = "TyVar"
            /\ find(Outcome(k)[2][3][1], tyFwd) = find(Outcome(k)[2][3][2], tyFwd)

\* λx.x has been inferred in an empty context
IdentityInferred ==
    /\ tcExpr = Function(Var(<<"x">>), Var(<<"x">>)) /\ tcCtx = EmptyMap
    /\ tcOut # <<>> /\ IsOk(Outcome(1))

\* "int" for an integer literal, + - * / over such operands and a let whose
\* body is one; "bool" for a boolean literal and & | ! over such operands;
\* a let-bound name is what its value is
RECURSIVE Shape(_, _)
Shape(e, rho) ==
    CASE e[1] = "Int" -> "int"
      [] e[1] = "Bool" -> "bool"
      [] e[1] = "Var" -> IF e[2] \in DOMAIN rho THEN rho[e[2]] ELSE "other"
      [] e[1] = "BinOp" ->
            IF /\ e[2] \in {"+", "-", "*", "/"}
               /\ Shape(e[3], rho) = "int" /\ Shape(e[4], rho) = "int"
            THEN "int"
            ELSE IF /\ e[2] \in {"&", "|"}
                    /\ Shape(e[3], rho) = "bool" /\ Shape(e[4], rho) = "bool"
            THEN "bool" ELSE "other"
      [] e[1] = "UnaryOp" ->
            IF e[2] = "!" /\ Shape(e[3], rho) = "bool" THEN "bool" ELSE "other"
      [] e[1] = "Let" ->
            IF Shape(e[3], rho) = "other" THEN "other"
            ELSE Shape(e[4], Bind(rho, e[2][2], Shape(e[3], rho)))
      [] OTHER -> "other"

\* C18: in an empty context infer_j returns exactly int for integer literals,
\* arithmetic over int operands and lets with such a body, and exactly bool
\* for boolean literals and & | ! over bool operands: the primitive type
\* itself, not a type variable.
PrimitiveTypesInferred ==
    tcCtx = EmptyMap =>
        \A k \in 1..Len(tcOut) :
            /\ Shape(tcExpr, <<>>) = "int" => Outcome(k) = Ok(IntType)
            /\ Shape(tcExpr, <<>>) = "bool" => Outcome(k) = Ok(BoolType)

\* let x = 5 in (x * 3) has been inferred
LetArithmeticInferred ==
    /\ tcExpr = Let(Var(<<"x">>), IntLit(5), BinOp("*", Var(<<"x">>), IntLit(3)))
    /\ tcCtx = EmptyMap /\ tcOut # <<>>
    /\ OutputText(1) = <<"int">>

\* Apply(...Apply(Apply(e1, e2), e3)..., en)
RECURSIVE LeftNest(_)
LeftNest(nodes) ==
    IF Len(nodes) = 1 THEN nodes[1]
    ELSE Apply(LeftNest(SubSeq(nodes, 1, Len(nodes) - 1)), nodes[Len(nodes)])

\* C19: a parenthesized sequence of n >= 2 completed expressions parses to
\* the left-nested application of the first to the rest, one by one.
ApplicationLeftNested ==
    pstatus \in {"ok", "fail"} =>
        \A args \in AppArgLists :
            text = AppText(args) =>
                /\ pstatus = "ok"
                /\ past = LeftNest([k \in 1..Len(args) |-> args[k][2]])

\* (f a b) has been parsed
ThreeExpressionsParsed ==
    /\ text = <<"(", "f", " ", "a", " ", "b", ")">>
    /\ pstatus = "ok"
    /\ past = Apply(Apply(Var(<<"f">>), Var(<<"a">>)), Var(<<"b">>))

\* the stack ends with `)`, its matching `(` is on the stack, and something
\* other than a completed expression lies between the two
StrayInSpan(stk) ==
    /\ Len(stk) >= 2 /\ IsTok(stk[Len(stk)], <<")">>)
    /\ ApplyScan(stk)[2] = 0
    /\ \E k \in (ApplyScan(stk)[1] + 1)..(Len(stk) - 1) : ~IsExpr(stk[k])

\* the span from the matching `(` to the end has become one Apply node
SpanApplied(stk, after) ==
    /\ Len(after) = ApplyScan(stk)[1]
    /\ SubSeq(after, 1, Len(after) - 1) = SubSeq(stk, 1, Len(after) - 1)
    /\ IsExpr(after[Len(after)]) /\ after[Len(after)][2][1] = "Apply"

\* C20: the application reduction fires only on a span of completed
\* expressions: when an unreduced token lies between the matching `(` and
\* the closing `)`, no step of the parser turns that span into an Apply node
\* and drops the token.
ApplicationOnlyOverExpressions ==
    [][(pstatus = "parsing" /\ StrayInSpan(pstack))
          => ~SpanApplied(pstack, pstack')]_vars

MalformedLet == <<"l", "e", "t", " ", "x", " ", "=", " ", "i", "n", " ", "5">>

\* the buffer is used up, no reduction applies, and the stack is not exactly
\* one completed expression
DeadEnd ==
    /\ pstatus = "parsing" /\ buffer = <<>>
    /\ try_terminal_reduction(pstack) = NoReduction
    /\ try_grammar_reduction(pstack) = NoReduction
    /\ ~(Len(pstack) = 1 /\ IsExpr(pstack[1]))

\* C21: at a dead end parse fails, the error holding the final stack, and no
\* AST is returned; parsing `let x = in 5` never returns an AST.
DeadEndRaisesParseError ==
    [][/\ DeadEnd => (pstatus' = "fail" /\ pstack' = pstack /\ past' = None)
       /\ (text = MalformedLet /\ pstatus = "parsing") => pstatus' # "ok"]_vars

\* `let x = in 5` has failed, `in` never having become part of a let
MalformedLetFailed ==
    /\ text = MalformedLet /\ pstatus = "fail" /\ past = None
    /\ Len(pstack) = 5 /\ IsTok(pstack[4], KwIn)

\* C22: whatever calls of parse a parser object has been through, failed
\* ones that left items on its stack included, parse(s) returns the AST, or
\* fails with the final stack, that a parser just made gives for s.
ParseIndependentOfHistory ==
    pstatus \in {"ok", "fail"} => <<pstatus, past, pstack>> = parse(text)

\* a later call on the same parser object has returned an AST
ParsedAfterFailure ==
    /\ pcalls > 0 /\ pstatus = "ok"
    /\ text = <<"(", "f", " ", "a", " ", "b", ")">>

\* main has finished with an expression that parsed
ParsedAndFinished ==
    /\ pstatus = "ok"
    /\ mPc = "done" \/ (mPc = "test" /\ mIndex > 0)

FedToSecd == source = past
FedToGenerator == gNode = past

\* C23 as stated: every expression that parses is fed to the type checker and
\* to exactly one backend, the SECD machine if the caller selected it and the
\* code generator otherwise.
ParsedFedToOneBackend ==
    ParsedAndFinished =>
        /\ tcExpr = past
        /\ IF mArgs[2] THEN FedToSecd /\ ~FedToGenerator
           ELSE FedToGenerator /\ ~FedToSecd

\* C23: an expression given on the command line that parses and type-checks
\* is fed to the type checker and then to exactly one backend, the SECD
\* machine if the caller selected it and the code generator otherwise; one
\* that parses and fails type checking, and every expression of the built-in
\* test run, is fed to the type checker and to no backend.
WellTypedFedToOneBackend ==
    ParsedAndFinished =>
        /\ tcExpr = past
        /\ IF mArgs[1] = None \/ ~IsOk(tcOut[Len(tcOut)][1])
           THEN ~FedToSecd /\ ~FedToGenerator
           ELSE IF mArgs[2] THEN FedToSecd /\ ~FedToGenerator
           ELSE FedToGenerator /\ ~FedToSecd

\* both backends have had their turn: here the machine, selected by --secd
SecdSelectedAndFed ==
    /\ mPc = "done" /\ mArgs[2] /\ pstatus = "ok"
    /\ IsOk(tcOut[1][1]) /\ FedToSecd /\ status = "new"

\* C24: infer_j leaves the context it was given as it was, the same names
\* with the same schemes, whether it returns or raises; a name bound by a
\* lambda or a let is in the context of that binder's body only, so a use of
\* it beside the binder is an unbound variable.
ContextNeverMutated ==
    \A k \in 1..Len(tcOut) :
        /\ tcDicts[1] = tcCtx
        /\ tcExpr \in SiblingUses =>
              Outcome(k) = Raise("Unbound variable", <<"b">>)

\* infer_j has been through a lambda and a let, in a context that binds x
BindersInferredInContext ==
    /\ tcExpr = Let(Var(<<"y">>), IntLit(1), Function(Var(<<"x">>), Var(<<"y">>)))
    /\ DOMAIN tcCtx = {<<"x">>}
    /\ tcOut # <<>> /\ IsOk(Outcome(1))

\* the opcodes of a list of instructions, those of the bodies of LDF and of
\* the branches of SEL included
RECURSIVE Opcodes(_)
Opcodes(code) ==
    UNION {{code[i][1]}
           \cup (IF code[i][1] = "LDF" THEN Opcodes(code[i][2]) ELSE {})
           \cup (IF code[i][1] = "SEL"
                 THEN Opcodes(code[i][2]) \cup Opcodes(code[i][3]) ELSE {}) :
           i \in 1..Len(code)}

\* C25: the code compile_ast returns holds neither DUM nor RAP, at any depth.
NoRecursionInstructionsEmitted ==
    (cPc = "returned" /\ IsOk(cResult)) =>
        Opcodes(cResult[2]) \cap {"DUM", "RAP"} = {}

\* code has been emitted with a function body inside a function body
NestedFunctionCompiled ==
    /\ cPc = "returned" /\ IsOk(cResult)
    /\ \E i \in 1..Len(cResult[2]) :
          /\ cResult[2][i][1] = "LDF"
          /\ "LDF" \in Opcodes(cResult[2][i][2])

\* the text is one token, and the token is an identifier
BareIdentifier ==
    Len(tokenize(text)) = 1 /\ IsIdentifier(tokenize(text)[1])

\* C26: a text that is a single identifier parses to Var(name), as a text
\* that is a single integer parses to the integer literal.
BareIdentifierPromoted ==
    /\ (BareIdentifier /\ pstatus \in {"ok", "fail"}) =>
           (pstatus = "ok" /\ past = Var(tokenize(text)[1]))
    /\ (Len(tokenize(text)) = 1 /\ isdigit(tokenize(text)[1])
        /\ pstatus \in {"ok", "fail"}) =>
           (pstatus = "ok" /\ past = IntLit(int(tokenize(text)[1])))

\* the grammar rules in the order of the tie-break policy
RuleOrder ==
    <<"not", "lambda", "application", "let", "paren", "binop", "promotion">>

\* the rule can rewrite the stack
RuleMatches(rule, stk) ==
    LET n == Len(stk)
    IN  CASE rule = "not" -> NotMatches(stk)
          [] rule = "lambda" ->
                 /\ LambdaMatches(stk)
                 /\ (stk[n - 2][1] = "IDENTIFIER" \/ stk[n - 2][2][1] = "Var")
          [] rule = "application" -> ApplyMatches(stk)
          [] rule = "let" -> LetMatches(stk) /\ stk[n - 4][2][1] = "Var"
          [] rule = "paren" -> ParenMatches(stk)
          [] rule = "binop" -> BinOpMatches(stk)
          [] rule = "promotion" ->
                 /\ n >= 2
                 /\ \/ stk[n][1] \in {"INT_LITERAL", "IDENTIFIER"}
                    \/ (stk[n][1] = "tok" /\ isdigit(stk[n][2]))

\* what the rule, taken alone, makes of the stack: the items it removes and
\* the kind of node it puts in their place
RuleRemoves(rule, stk) ==
    CASE rule = "not" -> 2
      [] rule = "lambda" -> 4
      [] rule = "application" -> Len(stk) - ApplyScan(stk)[1] + 1
      [] rule = "let" -> 6
      [] rule = "paren" -> 3
      [] rule = "binop" -> 3
      [] rule = "promotion" -> 1
RuleBuilds(rule, stk) ==
    CASE rule = "not" -> {"UnaryOp"}
      [] rule = "lambda" -> {"Function"}
      [] rule = "application" -> {"Apply"}
      [] rule = "let" -> {"Let"}
      [] rule = "paren" -> {stk[Len(stk) - 1][2][1]}
      [] rule = "binop" -> {"BinOp"}
      [] rule = "promotion" -> {"Int", "Var"}

FirstMatching(stk) ==
    LET m == {i \in 1..Len(RuleOrder) : RuleMatches(RuleOrder[i], stk)}
    IN  IF m = {} THEN "none"
        ELSE RuleOrder[CHOOSE i \in m : \A j \in m : i <= j]

RECURSIVE BindersAreVars(_)
BindersAreVars(node) ==
    CASE node[1] = "Function" ->
             node[2][1] = "Var" /\ BindersAreVars(node[3])
      [] node[1] = "Let" ->
             /\ node[2][1] = "Var"
             /\ BindersAreVars(node[3]) /\ BindersAreVars(node[4])
      [] node[1] = "Apply" -> BindersAreVars(node[2]) /\ BindersAreVars(node[3])
      [] node[1] = "BinOp" -> BindersAreVars(node[3]) /\ BindersAreVars(node[4])
      [] node[1] = "UnaryOp" -> BindersAreVars(node[3])
      [] OTHER -> TRUE

\* the tokens hold a lambda or a let whose binder position starts with a
\* literal or with a parenthesis
HasNonVarBinder(tokens) ==
    \E i \in 1..(Len(tokens) - 1) :
        /\ tokens[i] \in {<<"λ">>, KwLet}
        /\ \/ isdigit(tokens[i + 1])
           \/ tokens[i + 1] \in {KwTrue, KwFalse, <<"(">>}

\* C28: in an AST that parse returns every Function has a Var parameter and
\* every Let a Var name, and a text with a lambda or let whose binder is a
\* literal or a compound expression makes parse fail.
BindersAlwaysVar ==
    /\ pstatus = "ok" => BindersAreVars(past)
    /\ (pstatus \in {"ok", "fail"} /\ HasNonVarBinder(tokenize(text))) =>
           pstatus = "fail"

\* the part of C28 that holds: no Function or Let node with another binder
ReturnedBindersAreVars ==
    pstatus = "ok" => BindersAreVars(past)

LiteralDivision ==
    /\ source # None
    /\ source[1] = "BinOp" /\ getattr(source, "op") = "/"
    /\ getattr(source, "left")[1] = "Int" /\ getattr(source, "right")[1] = "Int"
    /\ getattr(getattr(source, "right"), "value") # 0

\* C30: for closed integer expressions that divide by a non-zero divisor,
\* run(compile_ast(e)) returns the integer quotient, an integer as the type
\* int that infer_j gives the expression and as the generator's 'div'.
DivisionGivesIntegerQuotient ==
    (LiteralDivision /\ status = "done") =>
        /\ infer_j(source, 1, <<>>, <<EmptyMap>>)[1] = Ok(IntType)
        /\ gen_op_map["/"] = "'div'"
        /\ result = IntV(getattr(getattr(source, "left"), "value")
                         \div getattr(getattr(source, "right"), "value"))

RECURSIVE Resolve(_, _)
Resolve(ty, fwd) ==
    LET t == find(ty, fwd)
    IN  IF t[1] = "TyVar" THEN t
        ELSE TyCon(t[2], [k \in 1..Len(t[3]) |-> Resolve(t[3][k], fwd)])

\* the call would bind the unbound variable `v` to the constructor type `c`
\* that contains it
WouldBindInside(v, c, fwd) ==
    /\ v[1] = "TyVar" /\ c[1] = "TyCon"
    /\ v[2] \in TyVarsIn(Resolve(c, fwd))
CallWouldBindInside ==
    LET a == find(uArgs[1], uBefore)
        b == find(uArgs[2], uBefore)
    IN  WouldBindInside(a, b, uBefore) \/ WouldBindInside(b, a, uBefore)

SelfApplication == Function(Var(<<"x">>), Apply(Var(<<"x">>), Var(<<"x">>)))

\* C32: infer_j fails with the recursive-type error for λx.(x x), and
\* unify_j fails with it whenever it would bind an unbound type variable to a
\* constructor type that contains the variable, which is left unbound.
RecursiveTypeRefused ==
    /\ LET r == infer_j(SelfApplication, 1, <<>>, <<EmptyMap>>)[1]
       IN  ~IsOk(r) /\ r[2] = "Recursive type found"
    /\ (uCalls > 0 /\ CallWouldBindInside) =>
           /\ ~IsOk(uResult) /\ uResult[2] = "Recursive type found"
           /\ SubSeq(tyFwd, 1, Len(uBefore)) = uBefore

\* unify_j was called with a variable and a constructor type that holds the
\* variable behind an earlier binding
BindingInsideRefused ==
    /\ uCalls > 1 /\ CallWouldBindInside
    /\ ~IsOk(uResult)
    /\ \E i \in 1..Len(tyFwd) : tyFwd[i] # None
    /\ \E k \in {1, 2} :
          /\ uArgs[k][1] = "TyCon"
          /\ TyVarsIn(uArgs[k]) # TyVarsIn(Resolve(uArgs[k], uBefore))

\* both sides of the call were constructor types when it was made
CallOnConstructors ==
    /\ find(uArgs[1], uBefore)[1] = "TyCon"
    /\ find(uArgs[2], uBefore)[1] = "TyCon"

\* C33: after a successful unify_j(t1, t2) the two types, fully resolved, are
\* structurally equal; two constructors unify only with equal names and equal
\* arities, their arguments being unified pairwise in order.
UnifiedTypesEqual ==
    uCalls > 0 =>
        LET c1 == find(uArgs[1], uBefore)
            c2 == find(uArgs[2], uBefore)
        IN  /\ IsOk(uResult) =>
                   Resolve(uArgs[1], tyFwd) = Resolve(uArgs[2], tyFwd)
            /\ (IsOk(uResult) /\ CallOnConstructors) =>
                   /\ c1[2] = c2[2] /\ Len(c1[3]) = Len(c2[3])
                   /\ \A k \in 1..Len(c1[3]) :
                          Resolve(c1[3][k], tyFwd) = Resolve(c2[3][k], tyFwd)
            /\ (/\ CallOnConstructors
                /\ c1[2] = c2[2] /\ Len(c1[3]) = Len(c2[3]) /\ Len(c1[3]) > 0
                /\ ~IsOk(unify_j(c1[3][1], c2[3][1], uBefore)[1])) =>
                   uResult = unify_j(c1[3][1], c2[3][1], uBefore)[1]

\* two function types were unified and each pair of arguments bound a
\* variable
BothArgumentsUnified ==
    /\ uCalls > 0 /\ IsOk(uResult) /\ CallOnConstructors
    /\ Len(uBefore) = 2 /\ uBefore[1] = None /\ uBefore[2] = None
    /\ tyFwd[1] # None /\ tyFwd[2] # None
    /\ tyFwd[1] # tyFwd[2]

\* λf.λx.((f x) + (f x))
AppliedTwice ==
    Function(Var(<<"f">>),
             Function(Var(<<"x">>),
                      BinOp("+", Apply(Var(<<"f">>), Var(<<"x">>)),
                                 Apply(Var(<<"f">>), Var(<<"x">>)))))

\* C34: unify_j(t, t) succeeds and changes no binding, also when both sides
\* resolve to the same unbound type variable and when that pair is met among
\* the arguments of two constructors; infer_j accepts λf.λx.((f x) + (f x)).
UnifySameTypeSucceeds ==
    uCalls > 0 =>
        LET c1 == find(uArgs[1], uBefore)
            c2 == find(uArgs[2], uBefore)
        IN  /\ (uArgs[1] = uArgs[2] \/ c1 = c2) =>
                   /\ IsOk(uResult)
                   /\ SubSeq(tyFwd, 1, Len(uBefore)) = uBefore
            /\ (/\ CallOnConstructors
                /\ c1[2] = "->" /\ c2[2] = "->"
                /\ find(c1[3][1], uBefore) = find(c2[3][1], uBefore)
                /\ find(c1[3][2], uBefore)[1] = "TyVar"
                /\ find(c1[3][2], uBefore) # find(c2[3][2], uBefore)
                /\ find(c1[3][2], uBefore) # find(c1[3][1], uBefore)) =>
                   IsOk(uResult)
            /\ IsOk(infer_j(AppliedTwice, 1, <<>>, <<EmptyMap>>)[1])

\* C35: when the instructions compiled from a let have run, the environment
\* register holds the environment it held before them, and a variable read
\* after a let sub-expression loads its own value: (λy.((let x = 5 in x) + y) 1)
\* is 6.
LetRestoresEnvironment ==
    /\ (source # None /\ source[1] = "Let" /\ status = "done") =>
           envHeap[env] = <<>>
    /\ (source = LetThenParameter /\ status \in {"done", "error"}) =>
           result = IntV(6)

\* C36: execute has a branch for every opcode that compile_ast emits: no
\* instruction of compiled code is passed over with the four registers left
\* as they are.
EmittedOpcodesExecuted ==
    (source # None /\ Running) => Instruction[1] \in Known

\* how far an entry of the stack is from a completed expression: a raw
\* token, an IDENTIFIER or INT_LITERAL entry, an Expr entry
Rank(item) ==
    IF item[1] = "tok" THEN 3 ELSE IF item[1] = "Expr" THEN 1 ELSE 2

\* C37: parse terminates on every text: a reduction shortens the stack or
\* replaces its top entry, a raw token or an IDENTIFIER, by a more reduced
\* one, a shift takes a token off the buffer, and so the loop comes to its
\* return or to its raise.
ParseTerminates ==
    /\ [][(pstatus = "parsing" /\ pstatus' = "parsing") =>
             \/ /\ buffer' = buffer
                /\ Len(pstack') < Len(pstack)
             \/ /\ buffer' = buffer
                /\ Len(pstack') = Len(pstack)
                /\ Pop(pstack') = Pop(pstack)
                /\ Top(pstack)[1] \in {"tok", "IDENTIFIER"}
                /\ Rank(Top(pstack')) < Rank(Top(pstack))
             \/ /\ Len(buffer') < Len(buffer)
                /\ Len(pstack') = Len(pstack) + 1]_vars
    /\ <>(pstatus \in {"ok", "fail"})

\* parse has returned after shifts and reductions of more than one kind
LongTextParsed ==
    /\ pstatus = "ok"
    /\ Len(tokenize(text)) >= 10
    /\ past[1] = "Let"

\* the node of an operand that is one token, an integer or an identifier
OperandNode(token) ==
    IF isdigit(token) THEN IntLit(int(token)) ELSE Var(token)

\* the text is operand, operator, operand, operator, operand
IsChain(tokens) ==
    /\ Len(tokens) = 5
    /\ \A k \in {1, 3, 5} : isdigit(tokens[k]) \/ IsIdentifier(tokens[k])
    /\ \A k \in {2, 4} : Len(tokens[k]) = 1 /\ tokens[k][1] \in ChainOperators

\* C38: a chain of binary operators without parentheses is parsed to the left
\* and without precedence: a op1 b op2 c gives BinOp(op2, BinOp(op1, a, b), c).
ChainLeftAssociative ==
    (IsChain(tokenize(text)) /\ pstatus \in {"ok", "fail"}) =>
        LET t == tokenize(text)
        IN  /\ pstatus = "ok"
            /\ past = BinOp(t[4][1],
                            BinOp(t[2][1], OperandNode(t[1]), OperandNode(t[3])),
                            OperandNode(t[5]))

\* the part of C38 that holds: a chain that starts with an integer
LiteralChainLeftAssociative ==
    (/\ IsChain(tokenize(text)) /\ isdigit(tokenize(text)[1])
     /\ pstatus \in {"ok", "fail"}) =>
        LET t == tokenize(text)
        IN  /\ pstatus = "ok"
            /\ past = BinOp(t[4][1],
                            BinOp(t[2][1], OperandNode(t[1]), OperandNode(t[3])),
                            OperandNode(t[5]))

\* C39: the generator renders distinct source names as distinct target
\* names: the names x and X bound in nested lets do not collide, so a
\* reference to the outer name is not captured by the inner binder.
DistinctNamesStayDistinct ==
    (/\ gPc = "returned" /\ IsOk(gResult)
     /\ gNode[1] = "Let" /\ getattr(gNode, "body")[1] = "Let"
     /\ getattr(gNode, "name") # getattr(getattr(gNode, "body"), "name"))
        => generate_var(getattr(gNode, "name"))
               # generate_var(getattr(getattr(gNode, "body"), "name"))

\* the bindings as the call found them, and as it left them
BindingsBefore == uBefore
BindingsAfter == SubSeq(tyFwd, 1, Len(uBefore))

\* C40: unify_j does not roll back: when the unification of two constructor
\* types fails at a pair of arguments, the bindings made for the pairs before
\* it stay in place.
FailedUnifyKeepsBindings ==
    (/\ uCalls > 0 /\ ~IsOk(uResult) /\ CallOnConstructors
     /\ find(uArgs[1], uBefore)[2] = find(uArgs[2], uBefore)[2]
     /\ Len(find(uArgs[1], uBefore)[3]) = Len(find(uArgs[2], uBefore)[3])) =>
        LET ls == find(uArgs[1], uBefore)[3]
            rs == find(uArgs[2], uBefore)[3]
            first == unify_j(ls[1], rs[1], uBefore)
        IN  /\ Len(ls) > 0
            /\ BindingsAfter = IF IsOk(first[1]) THEN first[2] ELSE BindingsBefore
            /\ IsOk(first[1]) =>
                   /\ Len(ls) > 1
                   /\ uResult = unify_j(ls[2], rs[2], first[2])[1]

\* a unification failed at the second pair of arguments after the first pair
\* had bound a variable: the bindings are no longer what they were
BindingLeftByFailedUnify ==
    /\ uCalls > 0 /\ ~IsOk(uResult) /\ CallOnConstructors
    /\ BindingsAfter # BindingsBefore
    /\ \E i \in 1..Len(uBefore) : uBefore[i] = None /\ tyFwd[i] # None

(***************************************************************************)
(* Specifications, one per component.                                      *)
(***************************************************************************)
InitCompile == CompInit /\ SecdIdle /\ ParseIdle /\ GenIdle /\ TypeIdle /\ MainIdle
SpecCompile == InitCompile /\ [][CompNext]_vars

InitSECD == SecdInit /\ CompIdle /\ ParseIdle /\ GenIdle /\ TypeIdle /\ MainIdle
SpecSECD == InitSECD /\ [][SecdNext]_vars

InitGen == GenInit /\ CompIdle /\ SecdIdle /\ ParseIdle /\ TypeIdle /\ MainIdle
SpecGen == InitGen /\ [][GenNext]_vars

InitParse == ParseInit /\ CompIdle /\ SecdIdle /\ GenIdle /\ TypeIdle /\ MainIdle
SpecParse == InitParse /\ [][ParseNext]_vars

\* the loop of parse goes on as long as it has a step to take
SpecParseLive == InitParse /\ [][ParseNext]_vars /\ WF_vars(ParseNext)

\* one parser, parse called on it again and again
InitReparse == ReparseInit /\ CompIdle /\ SecdIdle /\ GenIdle /\ TypeIdle /\ MainIdle
SpecReparse == InitReparse /\ [][ReparseNext]_vars

\* the command-line driver
InitMain == MainInit /\ CompIdle /\ SecdIdle /\ ParseIdle /\ GenIdle /\ TypeIdle
SpecMain == InitMain /\ [][MainNext]_vars

\* unification on its own
InitUnify == UnifyInit /\ InferIdle /\ CompIdle /\ SecdIdle /\ ParseIdle /\ GenIdle /\ MainIdle
SpecUnify == InitUnify /\ [][UnifyNext]_vars

\* type inference on its own
InitInfer == InferInit /\ CompIdle /\ SecdIdle /\ ParseIdle /\ GenIdle /\ MainIdle
SpecInfer == InitInfer /\ [][InferNext]_vars

====
